---- MODULE Spec2Model ----
(***************************************************************************)
(* Model of the trace-correlation engine of the AI Observability Toolkit:  *)
(* the ObservabilityCallback handler (src/src/tracers/                     *)
(* observability_callback.py), the thread-local TraceContext               *)
(* (src/src/tracers/context.py) and the SQLite store it writes through     *)
(* (src/src/storage/database.py, src/src/storage/repositories.py).         *)
(*                                                                         *)
(* One action is one call of a public entry point, run to completion under *)
(* _safe_execute: the body's effects up to the statement that raises are   *)
(* kept, the rest is skipped.  Every store write is committed on its own   *)
(* connection (Database.get_cursor), so a write either happened or raised. *)
(***************************************************************************)
EXTENDS Integers, Sequences, FiniteSets, TLC

\* ---------------------------------------------------------------- bounds
MaxPaths == 1      \* logical execution paths (threads) delivering notifications
MaxRuns == 2       \* distinct host run identifiers
MaxIds == 2        \* trace ids generate_trace_id hands out before the model stops
MaxTime == 1       \* last clock value
MaxEvents == 1     \* events the agent callbacks may append to
MaxFaults == 1     \* store writes that raise for a reason outside the model

Paths == 1..MaxPaths
RunIds == 1..MaxRuns
TraceIds == 1..MaxIds
Times == 0..MaxTime

\* ---------------------------------------------------------------- values
NoRun == 0         \* parent_run_id = None
NoId == 0          \* a trace id of None / SQL NULL
NoTime == 0 - 1    \* a timestamp of None / SQL NULL
NoSession == "NULL"
Sessions == {"s1", "s2"}
NoError == "NULL"
NoData == {}       \* events.data of NULL: no key of a data dict is stored
NoCall == <<>>     \* no library call under way
\* config.py: both flags read "true" when the environment does not set them
DefaultConfig == [ENABLE_PROMPT_LOGGING |-> TRUE, ENABLE_RESPONSE_LOGGING |-> TRUE]
\* the text on_llm_end stores in place of a prompt or response
LoggingDisabled == "[logging disabled]"
Errors == {"boom"}

VARIABLES
    traces,              \* table traces: trace_id -> row
    llm_calls,           \* table llm_calls, in rowid order
    events,              \* table events, in rowid order
    stack,               \* TraceContext._local.stack of every path
    session_id,          \* TraceContext._local.session_id of every path
    run_id_to_trace_id,  \* ObservabilityCallback._run_id_to_trace_id
    run_start_times,     \* ObservabilityCallback._run_start_times
    nextId,              \* the next value generate_trace_id returns
    now,                 \* the clock get_current_timestamp reads
    faults,              \* store writes that raised so far (disk full, locked)
    result,              \* how the entry point called last came back
    host,                \* the host framework: its open runs, innermost last, per
                         \* path, and the run ids it has used (SpecNested only)
    config,              \* config.ENABLE_PROMPT_LOGGING, ENABLE_RESPONSE_LOGGING
    call                 \* the library call under way, in the specifications
                         \* of one function: its arguments, progress and value

vars == <<traces, llm_calls, events, stack, session_id, run_id_to_trace_id,
          run_start_times, nextId, now, faults, result, host,
                   config, call>>

\* ------------------------------------------------------------ utilities
\* utils.calculate_duration_ms
CalculateDurationMs(start_time, end_time) == (end_time - start_time) * 1000

\* utils.generate_trace_id: a value never returned before (uuid4), here the
\* next integer of a counter
GenerateTraceId(n) == n

\* ------------------------------------------------------ TraceContext
\* TraceContext.get_current_trace_id: the top frame's trace_id, None if empty
GetCurrentTraceId(stk) ==
    IF Len(stk) > 0 THEN stk[Len(stk)].trace_id ELSE NoId

\* TraceContext.push_trace: append a frame whose parent is the current top
PushTrace(stk, trace_id, trace_type, start_time) ==
    Append(stk, [trace_id |-> trace_id,
                 trace_type |-> trace_type,
                 start_time |-> start_time,
                 parent_trace_id |-> GetCurrentTraceId(stk)])

\* the value of pop_trace and get_current_trace on an empty stack: None
NoFrame ==
    [trace_id |-> NoId, trace_type |-> "None", start_time |-> NoTime,
     parent_trace_id |-> NoId]

\* TraceContext.pop_trace, the value returned: the top frame, None if empty
PopTraceValue(stk) ==
    IF Len(stk) > 0 THEN stk[Len(stk)] ELSE NoFrame

\* variant of PopTrace: list.pop(0), the oldest frame is removed
PopTrace_Oldest(stk) ==
    IF Len(stk) > 0 THEN SubSeq(stk, 2, Len(stk)) ELSE stk

\* TraceContext.pop_trace: the stack without its top frame; unchanged if empty
PopTrace(stk) ==
    IF Len(stk) > 0 THEN SubSeq(stk, 1, Len(stk) - 1) ELSE stk

\* ------------------------------------------------------------- store
\* variant of CanInsertTrace: the foreign key of parent_trace_id is not
\* enforced (PRAGMA foreign_keys left off)
CanInsertTrace_NoForeignKey(tr, trace_id, parent_trace_id) ==
    trace_id \notin DOMAIN tr

\* INSERT INTO traces is accepted: trace_id is the PRIMARY KEY and
\* parent_trace_id REFERENCES traces(trace_id) with PRAGMA foreign_keys=1
\* (a row may reference itself)
CanInsertTrace(tr, trace_id, parent_trace_id) ==
    /\ trace_id \notin DOMAIN tr
    /\ \/ parent_trace_id = NoId
       \/ parent_trace_id \in DOMAIN tr
       \/ parent_trace_id = trace_id

\* variant of CreateTrace: the session_id column is left NULL
CreateTrace_NoSession(tr, trace_id, trace_type, start_time, sess, parent_trace_id) ==
    [t \in DOMAIN tr \cup {trace_id} |->
        IF t = trace_id
        THEN [parent_trace_id |-> parent_trace_id,
              session_id |-> NoSession,
              trace_type |-> trace_type,
              start_time |-> start_time,
              end_time |-> NoTime,
              duration_ms |-> NoTime,
              status |-> "pending",
              error_message |-> NoError]
        ELSE tr[t]]

\* TraceRepository.create_trace: the row is written with status 'pending'
CreateTrace(tr, trace_id, trace_type, start_time, sess, parent_trace_id) ==
    [t \in DOMAIN tr \cup {trace_id} |->
        IF t = trace_id
        THEN [parent_trace_id |-> parent_trace_id,
              session_id |-> sess,
              trace_type |-> trace_type,
              start_time |-> start_time,
              end_time |-> NoTime,
              duration_ms |-> NoTime,
              status |-> "pending",
              error_message |-> NoError]
        ELSE tr[t]]

\* variant of UpdateTraceCompletion: the UPDATE has no WHERE clause
UpdateTraceCompletion_AllRows(tr, trace_id, end_time, start_time, status, error_message) ==
    [t \in DOMAIN tr |->
        [tr[t] EXCEPT !.end_time = end_time,
                      !.duration_ms = CalculateDurationMs(start_time, end_time),
                      !.status = status,
                      !.error_message = error_message]]

\* variant of UpdateTraceCompletion: the UPDATE does not set status
UpdateTraceCompletion_KeepsStatus(tr, trace_id, end_time, start_time, status, error_message) ==
    [t \in DOMAIN tr |->
        IF t = trace_id
        THEN [tr[t] EXCEPT !.end_time = end_time,
                           !.duration_ms = CalculateDurationMs(start_time, end_time),
                           !.error_message = error_message]
        ELSE tr[t]]

\* variant of UpdateTraceCompletion: the error_message column is not written
UpdateTraceCompletion_NoMessage(tr, trace_id, end_time, start_time, status, error_message) ==
    [t \in DOMAIN tr |->
        IF t = trace_id
        THEN [tr[t] EXCEPT !.end_time = end_time,
                           !.duration_ms = CalculateDurationMs(start_time, end_time),
                           !.status = status]
        ELSE tr[t]]

\* TraceRepository.update_trace_completion: UPDATE ... WHERE trace_id = ?
\* (no row matching is not an error); the duration comes from the start_time
\* argument, not from the row
UpdateTraceCompletion(tr, trace_id, end_time, start_time, status, error_message) ==
    [t \in DOMAIN tr |->
        IF t = trace_id
        THEN [tr[t] EXCEPT !.end_time = end_time,
                           !.duration_ms = CalculateDurationMs(start_time, end_time),
                           !.status = status,
                           !.error_message = error_message]
        ELSE tr[t]]

\* INSERT INTO llm_calls is accepted: trace_id is UNIQUE NOT NULL and
\* REFERENCES traces(trace_id)
CanInsertLLMCall(tr, calls, trace_id) ==
    /\ trace_id \in DOMAIN tr
    /\ \A i \in 1..Len(calls) : calls[i].trace_id # trace_id

\* LLMCallRepository.create_llm_call
CreateLLMCall(calls, trace_id, prompt, response) ==
    Append(calls, [trace_id |-> trace_id,
                   prompt |-> prompt,
                   response |-> response])

\* INSERT INTO events is accepted: trace_id REFERENCES traces(trace_id)
CanInsertEvent(tr, trace_id) == trace_id \in DOMAIN tr

\* EventRepository.create_event: data is stored as JSON, an empty dict as
\* NULL (serialize_to_json(data) if data else None)
CreateEvent(evs, trace_id, event_type, timestamp, data) ==
    Append(evs, [trace_id |-> trace_id,
                 event_type |-> event_type,
                 timestamp |-> timestamp,
                 data |-> IF data = {} THEN NoData ELSE data])

\* ------------------------------------------------ ObservabilityCallback
\* variant of GetOrCreateTraceId: a trace id is drawn at every resolution
GetOrCreateTraceId_AlwaysNew(map, n, run_id) ==
    [map |-> [map EXCEPT ![run_id] = GenerateTraceId(n)],
     next |-> n + 1,
     id |-> GenerateTraceId(n)]

\* _get_or_create_trace_id: the mapped trace id, allocating one if unseen
GetOrCreateTraceId(map, n, run_id) ==
    IF map[run_id] = NoId
    THEN [map |-> [map EXCEPT ![run_id] = GenerateTraceId(n)],
          next |-> n + 1,
          id |-> GenerateTraceId(n)]
    ELSE [map |-> map, next |-> n, id |-> map[run_id]]

\* variant of ResolveParent: without parent_run_id the stack is not consulted
ResolveParent_NoStack(map, n, parent_run_id, stk) ==
    IF parent_run_id # NoRun
    THEN GetOrCreateTraceId(map, n, parent_run_id)
    ELSE [map |-> map, next |-> n, id |-> NoId]

\* variant of ResolveParent: parent_run_id is ignored, the stack decides
ResolveParent_StackOnly(map, n, parent_run_id, stk) ==
    [map |-> map, next |-> n, id |-> GetCurrentTraceId(stk)]

\* the parent of a new trace (and the trace of an agent event): the trace id
\* of parent_run_id if one is given, else the top of the calling path's stack
ResolveParent(map, n, parent_run_id, stk) ==
    IF parent_run_id # NoRun
    THEN GetOrCreateTraceId(map, n, parent_run_id)
    ELSE [map |-> map, next |-> n, id |-> GetCurrentTraceId(stk)]

\* variant of StoredText: the text is stored whatever the flag
StoredText_Always(enabled, field) == field

\* the text a handler stores for a prompt or response of the call:
\* truncate_string(text, MAX_..._LENGTH) when logging is enabled (a value that
\* depends on the call's text, here the name of the field), else the marker
StoredText(enabled, field) ==
    IF enabled THEN field ELSE LoggingDisabled

\* the data dict a handler passes to create_event: {key: <text of the call>}
\* when logging is enabled (here the set of its keys), else {}
EventData(enabled, keys) ==
    IF enabled THEN keys ELSE {}

\* fail = 0: no store write of the call raises on its own; fail = i: the i-th
\* write raises sqlite3.OperationalError
MayFail(fail) == fail = 0 \/ faults < MaxFaults
Faults(fail) == IF fail = 0 THEN faults ELSE faults + 1

\* variant of SafeExecute: the body runs outside try/except
SafeExecute_NoTry(raised) == IF raised THEN "raised" ELSE "returned"

\* _safe_execute: an exception of the body is printed, never re-raised
SafeExecute(raised) == IF raised THEN "logged" ELSE "returned"


\* -------------------------------------------------------------- Init
\* ObservabilityCallback.__init__(session_id="s1") called on path 1 with a
\* new database: empty tables, empty maps, the session set on that path
InitFor(runs) ==
    /\ traces = <<>>
    /\ llm_calls = <<>>
    /\ events = <<>>
    /\ stack = [p \in Paths |-> <<>>]
    /\ session_id = [p \in Paths |-> IF p = 1 THEN "s1" ELSE NoSession]
    /\ run_id_to_trace_id = [r \in runs |-> NoId]
    /\ run_start_times = [r \in runs |-> NoTime]
    /\ nextId = 1
    /\ now = 0
    /\ faults = 0
    /\ result = "returned"
    /\ host = [open |-> [p \in Paths |-> <<>>], started |-> {}]
    /\ config = DefaultConfig
    /\ call = NoCall

Init == InitFor(RunIds)

\* time.time() moves on between two calls of the handler
Tick ==
    /\ now < MaxTime
    /\ now' = now + 1
    /\ UNCHANGED <<traces, llm_calls, events, stack, session_id,
                   run_id_to_trace_id, run_start_times, nextId, faults, result, host,
                   config, call>>

\* a call of a TraceContext method made directly by a path
ContextCall(op, p, value) == [op |-> op, path |-> p, value |-> value]

\* variant of SetSessionId: session_id is an attribute of the TraceContext
\* object, not of its threading.local
SetSessionId_Shared(p, s) ==
    /\ session_id' = [q \in DOMAIN session_id |-> s]
    /\ call' = ContextCall("set_session_id", p, NoFrame)
    /\ UNCHANGED <<traces, llm_calls, events, stack, run_id_to_trace_id,
                   run_start_times, nextId, now, faults, result, host,
                   config>>

\* TraceContext.set_session_id on path p
SetSessionId(p, s) ==
    /\ session_id' = [session_id EXCEPT ![p] = s]
    /\ call' = ContextCall("set_session_id", p, NoFrame)
    /\ UNCHANGED <<traces, llm_calls, events, stack, run_id_to_trace_id,
                   run_start_times, nextId, now, faults, result, host,
                   config>>

\* variant of Clear: only the stack is reset
Clear_KeepsSession(p) ==
    /\ stack' = [stack EXCEPT ![p] = <<>>]
    /\ call' = ContextCall("clear", p, NoFrame)
    /\ UNCHANGED <<traces, llm_calls, events, session_id, run_id_to_trace_id,
                   run_start_times, nextId, now, faults, result, host,
                   config>>

\* TraceContext.clear on path p
Clear(p) ==
    /\ stack' = [stack EXCEPT ![p] = <<>>]
    /\ session_id' = [session_id EXCEPT ![p] = NoSession]
    /\ call' = ContextCall("clear", p, NoFrame)
    /\ UNCHANGED <<traces, llm_calls, events, run_id_to_trace_id,
                   run_start_times, nextId, now, faults, result, host,
                   config>>

\* TraceContext.push_trace called on path p
ContextPush(p, trace_id, trace_type) ==
    /\ stack' = [stack EXCEPT ![p] = PushTrace(@, trace_id, trace_type, now)]
    /\ call' = ContextCall("push_trace", p, NoFrame)
    /\ UNCHANGED <<traces, llm_calls, events, session_id, run_id_to_trace_id,
                   run_start_times, nextId, now, faults, result, host,
                   config>>

\* TraceContext.pop_trace called on path p
ContextPop(p) ==
    /\ stack' = [stack EXCEPT ![p] = PopTrace(@)]
    /\ call' = ContextCall("pop_trace", p, PopTraceValue(stack[p]))
    /\ UNCHANGED <<traces, llm_calls, events, session_id, run_id_to_trace_id,
                   run_start_times, nextId, now, faults, result, host,
                   config>>

\* ------------------------------------------------------- LLM callbacks
\* on_llm_start(run_id, parent_run_id) on path p; fail = 1: create_trace raises
OnLlmStart(p, run_id, parent_run_id, fail) ==
    LET a == GetOrCreateTraceId(run_id_to_trace_id, nextId, run_id)
        b == ResolveParent(a.map, a.next, parent_run_id, stack[p])
        created == fail # 1 /\ CanInsertTrace(traces, a.id, b.id)
    IN  /\ MayFail(fail)
        /\ faults' = Faults(fail)
        /\ run_id_to_trace_id' = b.map
        /\ nextId' = b.next
        /\ run_start_times' = [run_start_times EXCEPT ![run_id] = now]
        /\ traces' = IF created
                     THEN CreateTrace(traces, a.id, "llm", now, session_id[p], b.id)
                     ELSE traces
        /\ stack' = IF created
                    THEN [stack EXCEPT ![p] = PushTrace(@, a.id, "llm", now)]
                    ELSE stack
        /\ result' = SafeExecute(~created)
        /\ UNCHANGED <<llm_calls, events, session_id, now>>

\* on_llm_end(run_id) on path p; fail = 1: update_trace_completion raises
\* (so does a cost or token extraction that raises: nothing is written after
\* the pop), fail = 2: create_llm_call raises.  The cleanup is reached only
\* when both writes returned; its second del raises KeyError when the run has
\* no start time.
OnLlmEnd(p, run_id, fail) ==
    LET a == GetOrCreateTraceId(run_id_to_trace_id, nextId, run_id)
        start_time == IF run_start_times[run_id] # NoTime
                      THEN run_start_times[run_id] ELSE now
        updated == fail # 1
        tr == IF updated
              THEN UpdateTraceCompletion(traces, a.id, now, start_time,
                                         "success", NoError)
              ELSE traces
        inserted == updated /\ fail # 2 /\ CanInsertLLMCall(tr, llm_calls, a.id)
    IN  /\ MayFail(fail)
        /\ faults' = Faults(fail)
        /\ nextId' = a.next
        /\ stack' = [stack EXCEPT ![p] = PopTrace(@)]
        /\ traces' = tr
        /\ llm_calls' = IF inserted THEN CreateLLMCall(llm_calls, a.id,
                     StoredText(config.ENABLE_PROMPT_LOGGING, "prompt"),
                     StoredText(config.ENABLE_RESPONSE_LOGGING, "response"))
                        ELSE llm_calls
        /\ run_id_to_trace_id' = IF inserted
                                 THEN [a.map EXCEPT ![run_id] = NoId]
                                 ELSE a.map
        /\ run_start_times' = IF inserted
                              THEN [run_start_times EXCEPT ![run_id] = NoTime]
                              ELSE run_start_times
        /\ result' = SafeExecute(~inserted \/ run_start_times[run_id] = NoTime)
        /\ UNCHANGED <<events, session_id, now>>

\* on_llm_error(error, run_id) on path p; fail = 1: update_trace_completion
\* raises and the cleanup is skipped
OnLlmError(p, run_id, error, fail) ==
    LET a == GetOrCreateTraceId(run_id_to_trace_id, nextId, run_id)
        start_time == IF run_start_times[run_id] # NoTime
                      THEN run_start_times[run_id] ELSE now
        updated == fail # 1
    IN  /\ MayFail(fail)
        /\ faults' = Faults(fail)
        /\ nextId' = a.next
        /\ stack' = [stack EXCEPT ![p] = PopTrace(@)]
        /\ traces' = IF updated
                     THEN UpdateTraceCompletion(traces, a.id, now, start_time,
                                                "error", error)
                     ELSE traces
        /\ run_id_to_trace_id' = IF updated
                                 THEN [a.map EXCEPT ![run_id] = NoId]
                                 ELSE a.map
        /\ run_start_times' = IF updated
                              THEN [run_start_times EXCEPT ![run_id] = NoTime]
                              ELSE run_start_times
        /\ result' = SafeExecute(~updated)
        /\ UNCHANGED <<llm_calls, events, session_id, now>>

\* ----------------------------------------------------- chain callbacks
\* on_chain_start(run_id, parent_run_id) on path p; fail = 1: create_trace
\* raises (nothing is pushed), fail = 2: create_event raises (after the push)
OnChainStart(p, run_id, parent_run_id, fail) ==
    LET a == GetOrCreateTraceId(run_id_to_trace_id, nextId, run_id)
        b == ResolveParent(a.map, a.next, parent_run_id, stack[p])
        created == fail # 1 /\ CanInsertTrace(traces, a.id, b.id)
        tr == IF created
              THEN CreateTrace(traces, a.id, "chain", now, session_id[p], b.id)
              ELSE traces
        logged == created /\ fail # 2 /\ CanInsertEvent(tr, a.id)
    IN  /\ MayFail(fail)
        /\ faults' = Faults(fail)
        /\ run_id_to_trace_id' = b.map
        /\ nextId' = b.next
        /\ run_start_times' = [run_start_times EXCEPT ![run_id] = now]
        /\ traces' = tr
        /\ stack' = IF created
                    THEN [stack EXCEPT ![p] = PushTrace(@, a.id, "chain", now)]
                    ELSE stack
        /\ events' = IF logged
                     THEN CreateEvent(events, a.id, "chain_start", now,
                             EventData(config.ENABLE_PROMPT_LOGGING, {"inputs"}))
                     ELSE events
        /\ result' = SafeExecute(~logged)
        /\ UNCHANGED <<llm_calls, session_id, now>>

\* on_chain_end(run_id) on path p; fail = 1: update_trace_completion raises,
\* fail = 2: create_event raises; the cleanup is skipped by either
OnChainEnd(p, run_id, fail) ==
    LET a == GetOrCreateTraceId(run_id_to_trace_id, nextId, run_id)
        start_time == IF run_start_times[run_id] # NoTime
                      THEN run_start_times[run_id] ELSE now
        updated == fail # 1
        tr == IF updated
              THEN UpdateTraceCompletion(traces, a.id, now, start_time,
                                         "success", NoError)
              ELSE traces
        logged == updated /\ fail # 2 /\ CanInsertEvent(tr, a.id)
    IN  /\ MayFail(fail)
        /\ faults' = Faults(fail)
        /\ nextId' = a.next
        /\ stack' = [stack EXCEPT ![p] = PopTrace(@)]
        /\ traces' = tr
        /\ events' = IF logged
                     THEN CreateEvent(events, a.id, "chain_end", now,
                             EventData(config.ENABLE_RESPONSE_LOGGING, {"outputs"}))
                     ELSE events
        /\ run_id_to_trace_id' = IF logged
                                 THEN [a.map EXCEPT ![run_id] = NoId]
                                 ELSE a.map
        /\ run_start_times' = IF logged
                              THEN [run_start_times EXCEPT ![run_id] = NoTime]
                              ELSE run_start_times
        /\ result' = SafeExecute(~logged)
        /\ UNCHANGED <<llm_calls, session_id, now>>

\* on_chain_error(error, run_id) on path p; fail = 1:
\* update_trace_completion raises and the cleanup is skipped
OnChainError(p, run_id, error, fail) ==
    LET a == GetOrCreateTraceId(run_id_to_trace_id, nextId, run_id)
        start_time == IF run_start_times[run_id] # NoTime
                      THEN run_start_times[run_id] ELSE now
        updated == fail # 1
    IN  /\ MayFail(fail)
        /\ faults' = Faults(fail)
        /\ nextId' = a.next
        /\ stack' = [stack EXCEPT ![p] = PopTrace(@)]
        /\ traces' = IF updated
                     THEN UpdateTraceCompletion(traces, a.id, now, start_time,
                                                "error", error)
                     ELSE traces
        /\ run_id_to_trace_id' = IF updated
                                 THEN [a.map EXCEPT ![run_id] = NoId]
                                 ELSE a.map
        /\ run_start_times' = IF updated
                              THEN [run_start_times EXCEPT ![run_id] = NoTime]
                              ELSE run_start_times
        /\ result' = SafeExecute(~updated)
        /\ UNCHANGED <<llm_calls, events, session_id, now>>

\* ------------------------------------------------------ tool callbacks
\* on_tool_start(run_id, parent_run_id) on path p: the trace is written but
\* not pushed; fail = 1: create_trace raises, fail = 2: create_event raises
OnToolStart(p, run_id, parent_run_id, fail) ==
    LET a == GetOrCreateTraceId(run_id_to_trace_id, nextId, run_id)
        b == ResolveParent(a.map, a.next, parent_run_id, stack[p])
        created == fail # 1 /\ CanInsertTrace(traces, a.id, b.id)
        tr == IF created
              THEN CreateTrace(traces, a.id, "tool", now, session_id[p], b.id)
              ELSE traces
        logged == created /\ fail # 2 /\ CanInsertEvent(tr, a.id)
    IN  /\ MayFail(fail)
        /\ faults' = Faults(fail)
        /\ run_id_to_trace_id' = b.map
        /\ nextId' = b.next
        /\ run_start_times' = [run_start_times EXCEPT ![run_id] = now]
        /\ traces' = tr
        /\ events' = IF logged
                     THEN CreateEvent(events, a.id, "tool_start", now,
                             EventData(config.ENABLE_PROMPT_LOGGING, {"input"}))
                     ELSE events
        /\ result' = SafeExecute(~logged)
        /\ UNCHANGED <<llm_calls, stack, session_id, now>>

\* variant of OnToolEnd: the top frame is popped as on_chain_end does
OnToolEnd_Pops(p, run_id, fail) ==
    LET a == GetOrCreateTraceId(run_id_to_trace_id, nextId, run_id)
        updated == fail # 1
        tr == IF updated
              THEN UpdateTraceCompletion(traces, a.id, now, now, "success",
                                         NoError)
              ELSE traces
        logged == updated /\ fail # 2 /\ CanInsertEvent(tr, a.id)
    IN  /\ MayFail(fail)
        /\ faults' = Faults(fail)
        /\ nextId' = a.next
        /\ stack' = [stack EXCEPT ![p] = PopTrace(@)]
        /\ traces' = tr
        /\ events' = IF logged
                     THEN CreateEvent(events, a.id, "tool_end", now, {})
                     ELSE events
        /\ run_id_to_trace_id' = IF logged
                                 THEN [a.map EXCEPT ![run_id] = NoId]
                                 ELSE a.map
        /\ run_start_times' = IF logged
                              THEN [run_start_times EXCEPT ![run_id] = NoTime]
                              ELSE run_start_times
        /\ result' = SafeExecute(~logged)
        /\ UNCHANGED <<llm_calls, session_id, now>>

\* on_tool_end(run_id) on path p: no pop; fail = 1: update_trace_completion
\* raises, fail = 2: create_event raises; the cleanup is skipped by either
OnToolEnd(p, run_id, fail) ==
    LET a == GetOrCreateTraceId(run_id_to_trace_id, nextId, run_id)
        start_time == IF run_start_times[run_id] # NoTime
                      THEN run_start_times[run_id] ELSE now
        updated == fail # 1
        tr == IF updated
              THEN UpdateTraceCompletion(traces, a.id, now, start_time,
                                         "success", NoError)
              ELSE traces
        logged == updated /\ fail # 2 /\ CanInsertEvent(tr, a.id)
    IN  /\ MayFail(fail)
        /\ faults' = Faults(fail)
        /\ nextId' = a.next
        /\ traces' = tr
        /\ events' = IF logged
                     THEN CreateEvent(events, a.id, "tool_end", now,
                             EventData(config.ENABLE_RESPONSE_LOGGING, {"output"}))
                     ELSE events
        /\ run_id_to_trace_id' = IF logged
                                 THEN [a.map EXCEPT ![run_id] = NoId]
                                 ELSE a.map
        /\ run_start_times' = IF logged
                              THEN [run_start_times EXCEPT ![run_id] = NoTime]
                              ELSE run_start_times
        /\ result' = SafeExecute(~logged)
        /\ UNCHANGED <<llm_calls, stack, session_id, now>>

\* on_tool_error(error, run_id) on path p: no pop; fail = 1:
\* update_trace_completion raises and the cleanup is skipped
OnToolError(p, run_id, error, fail) ==
    LET a == GetOrCreateTraceId(run_id_to_trace_id, nextId, run_id)
        start_time == IF run_start_times[run_id] # NoTime
                      THEN run_start_times[run_id] ELSE now
        updated == fail # 1
    IN  /\ MayFail(fail)
        /\ faults' = Faults(fail)
        /\ nextId' = a.next
        /\ traces' = IF updated
                     THEN UpdateTraceCompletion(traces, a.id, now, start_time,
                                                "error", error)
                     ELSE traces
        /\ run_id_to_trace_id' = IF updated
                                 THEN [a.map EXCEPT ![run_id] = NoId]
                                 ELSE a.map
        /\ run_start_times' = IF updated
                              THEN [run_start_times EXCEPT ![run_id] = NoTime]
                              ELSE run_start_times
        /\ result' = SafeExecute(~updated)
        /\ UNCHANGED <<llm_calls, events, stack, session_id, now>>

\* ----------------------------------------------------- agent callbacks
\* on_agent_action(parent_run_id) on path p (its run_id is not used): an
\* event under the resolved trace, nothing when none is resolved; fail = 1:
\* create_event raises
OnAgentAction(p, parent_run_id, fail) ==
    LET b == ResolveParent(run_id_to_trace_id, nextId, parent_run_id, stack[p])
        logged == b.id # NoId /\ fail # 1 /\ CanInsertEvent(traces, b.id)
    IN  /\ MayFail(fail)
        /\ faults' = Faults(fail)
        /\ run_id_to_trace_id' = b.map
        /\ nextId' = b.next
        /\ events' = IF logged
                     THEN CreateEvent(events, b.id, "agent_action", now,
                             EventData(config.ENABLE_PROMPT_LOGGING,
                                       {"tool", "tool_input", "log"}))
                     ELSE events
        /\ result' = SafeExecute(b.id # NoId /\ ~logged)
        /\ UNCHANGED <<traces, llm_calls, stack, session_id,
                       run_start_times, now>>

\* on_agent_finish(parent_run_id) on path p: as on_agent_action, with
\* event_type agent_finish
OnAgentFinish(p, parent_run_id, fail) ==
    LET b == ResolveParent(run_id_to_trace_id, nextId, parent_run_id, stack[p])
        logged == b.id # NoId /\ fail # 1 /\ CanInsertEvent(traces, b.id)
    IN  /\ MayFail(fail)
        /\ faults' = Faults(fail)
        /\ run_id_to_trace_id' = b.map
        /\ nextId' = b.next
        /\ events' = IF logged
                     THEN CreateEvent(events, b.id, "agent_finish", now,
                             EventData(config.ENABLE_RESPONSE_LOGGING,
                                       {"return_values", "log"}))
                     ELSE events
        /\ result' = SafeExecute(b.id # NoId /\ ~logged)
        /\ UNCHANGED <<traces, llm_calls, stack, session_id,
                       run_start_times, now>>

\* ------------------------------------------------------ specification
\* the trace ids a call naming these run ids draws from generate_trace_id
Allocates(run_ids) ==
    Cardinality({r \in run_ids \ {NoRun} : run_id_to_trace_id[r] = NoId})

\* one call of a notification entry point: the host framework may deliver
\* any notification, on path p, for any run id of `runs` (no run is named as
\* its own parent), and a store write may raise; the model stops drawing
\* trace ids after `ids` of them
Notify(p, runs, ids) ==
    \/ \E r \in runs : \E pr \in (runs \ {r}) \cup {NoRun}, f \in 0..1 :
          /\ nextId + Allocates({r, pr}) <= ids + 1
          /\ OnLlmStart(p, r, pr, f)
          /\ UNCHANGED <<host, config, call>>
    \/ \E r \in runs, f \in 0..2 :
          /\ nextId + Allocates({r}) <= ids + 1
          /\ OnLlmEnd(p, r, f)
          /\ UNCHANGED <<host, config, call>>
    \/ \E r \in runs, e \in Errors, f \in 0..1 :
          /\ nextId + Allocates({r}) <= ids + 1
          /\ OnLlmError(p, r, e, f)
          /\ UNCHANGED <<host, config, call>>
    \/ \E r \in runs : \E pr \in (runs \ {r}) \cup {NoRun}, f \in 0..2 :
          /\ nextId + Allocates({r, pr}) <= ids + 1
          /\ OnChainStart(p, r, pr, f)
          /\ UNCHANGED <<host, config, call>>
    \/ \E r \in runs, f \in 0..2 :
          /\ nextId + Allocates({r}) <= ids + 1
          /\ OnChainEnd(p, r, f)
          /\ UNCHANGED <<host, config, call>>
    \/ \E r \in runs, e \in Errors, f \in 0..1 :
          /\ nextId + Allocates({r}) <= ids + 1
          /\ OnChainError(p, r, e, f)
          /\ UNCHANGED <<host, config, call>>
    \/ \E r \in runs : \E pr \in (runs \ {r}) \cup {NoRun}, f \in 0..2 :
          /\ nextId + Allocates({r, pr}) <= ids + 1
          /\ OnToolStart(p, r, pr, f)
          /\ UNCHANGED <<host, config, call>>
    \/ \E r \in runs, f \in 0..2 :
          /\ nextId + Allocates({r}) <= ids + 1
          /\ OnToolEnd(p, r, f)
          /\ UNCHANGED <<host, config, call>>
    \/ \E r \in runs, e \in Errors, f \in 0..1 :
          /\ nextId + Allocates({r}) <= ids + 1
          /\ OnToolError(p, r, e, f)
          /\ UNCHANGED <<host, config, call>>
    \/ \E pr \in runs \cup {NoRun}, f \in 0..1 :
          /\ Len(events) < MaxEvents
          /\ nextId + Allocates({pr}) <= ids + 1
          /\ OnAgentAction(p, pr, f)
          /\ UNCHANGED <<host, config, call>>
    \/ \E pr \in runs \cup {NoRun}, f \in 0..1 :
          /\ Len(events) < MaxEvents
          /\ nextId + Allocates({pr}) <= ids + 1
          /\ OnAgentFinish(p, pr, f)
          /\ UNCHANGED <<host, config, call>>

\* Spec: every sequence of notifications, the clock standing still (the
\* handler stores the timestamps it reads and branches on none of them)
Next == \E p \in Paths : Notify(p, RunIds, MaxIds)

Spec == Init /\ [][Next]_vars

\* SpecClock: the same notifications with the clock advancing between them,
\* for a single trace id
NextClock ==
    \/ Tick
    \/ \E p \in Paths : Notify(p, RunIds, 1)

SpecClock == Init /\ [][NextClock]_vars

\* ------------------------------------------------- a well-behaved host
\* SpecNested: the host framework delivers well-nested notifications.  Every
\* run has a run id of its own, is started once, and is ended (or fails)
\* once, on the path that started it, after the runs it encloses; a
\* parent_run_id, when passed, is the run id of the innermost open run.
NestedRunIds == 1..(MaxRuns + 1)

Innermost(open) ==
    IF open = <<>> THEN {} ELSE {open[Len(open)].run_id}

HostOpens(p, run_id, kind) ==
    host' = [open |-> [host.open EXCEPT
                          ![p] = Append(@, [run_id |-> run_id, kind |-> kind])],
             started |-> host.started \cup {run_id}]

HostCloses(p) ==
    host' = [host EXCEPT !.open[p] = SubSeq(@, 1, Len(@) - 1)]

HostStart(p, kind, run_id, parent_run_id, fail) ==
    /\ run_id \notin host.started
    /\ parent_run_id \in {NoRun} \cup Innermost(host.open[p])
    /\ \/ kind = "llm" /\ OnLlmStart(p, run_id, parent_run_id, fail)
       \/ kind = "chain" /\ OnChainStart(p, run_id, parent_run_id, fail)
       \/ kind = "tool" /\ OnToolStart(p, run_id, parent_run_id, fail)
    /\ HostOpens(p, run_id, kind)
    /\ UNCHANGED <<config, call>>

HostEnd(p, fail) ==
    /\ host.open[p] # <<>>
    /\ LET top == host.open[p][Len(host.open[p])]
       IN  \/ top.kind = "llm" /\ OnLlmEnd(p, top.run_id, fail)
           \/ top.kind = "chain" /\ OnChainEnd(p, top.run_id, fail)
           \/ top.kind = "tool" /\ OnToolEnd(p, top.run_id, fail)
    /\ HostCloses(p)
    /\ UNCHANGED <<config, call>>

HostError(p, error, fail) ==
    /\ host.open[p] # <<>>
    /\ LET top == host.open[p][Len(host.open[p])]
       IN  \/ top.kind = "llm" /\ OnLlmError(p, top.run_id, error, fail)
           \/ top.kind = "chain" /\ OnChainError(p, top.run_id, error, fail)
           \/ top.kind = "tool" /\ OnToolError(p, top.run_id, error, fail)
    /\ HostCloses(p)
    /\ UNCHANGED <<config, call>>

NextNested ==
    \E p \in Paths :
        \/ \E kind \in {"llm", "chain", "tool"}, r \in NestedRunIds,
              pr \in NestedRunIds \cup {NoRun}, f \in 0..2 :
              HostStart(p, kind, r, pr, f)
        \/ \E f \in 0..2 : HostEnd(p, f)
        \/ \E e \in Errors, f \in 0..1 : HostError(p, e, f)

SpecNested == InitFor(NestedRunIds) /\ [][NextNested]_vars

\* ---------------------------------------------- the TraceContext alone
\* SpecContext: two paths (threads) call push_trace, pop_trace,
\* set_session_id and clear of the one global TraceContext, in any order
MaxDepth == 2
ContextPaths == 1..(MaxPaths + 1)

InitContext ==
    /\ traces = <<>>
    /\ llm_calls = <<>>
    /\ events = <<>>
    /\ stack = [p \in ContextPaths |-> <<>>]
    /\ session_id = [p \in ContextPaths |-> NoSession]
    /\ run_id_to_trace_id = [r \in RunIds |-> NoId]
    /\ run_start_times = [r \in RunIds |-> NoTime]
    /\ nextId = 1
    /\ now = 0
    /\ faults = 0
    /\ result = "returned"
    /\ host = [open |-> [p \in ContextPaths |-> <<>>], started |-> {}]
    /\ config = DefaultConfig
    /\ call = NoCall

NextContext ==
    \E p \in ContextPaths :
        \/ \E t \in TraceIds, ty \in {"llm", "chain"} :
              Len(stack[p]) < MaxDepth /\ ContextPush(p, t, ty)
        \/ ContextPop(p)
        \/ \E s \in Sessions : SetSessionId(p, s)
        \/ Clear(p)

SpecContext == InitContext /\ [][NextContext]_vars

\* ------------------------------------- _get_or_create_trace_id, by steps
\* SpecRace: two paths (threads) call _get_or_create_trace_id of the one
\* handler.  The dict is not locked: the membership test, the assignment and
\* the final read are separate steps, and the interpreter may switch threads
\* between any two of them.
RaceIds == MaxIds + 1

Idle == [pc |-> "idle", run_id |-> NoRun, id |-> NoId]

InitRace ==
    /\ traces = <<>>
    /\ llm_calls = <<>>
    /\ events = <<>>
    /\ stack = [p \in ContextPaths |-> <<>>]
    /\ session_id = [p \in ContextPaths |-> NoSession]
    /\ run_id_to_trace_id = [r \in RunIds |-> NoId]
    /\ run_start_times = [r \in RunIds |-> NoTime]
    /\ nextId = 1
    /\ now = 0
    /\ faults = 0
    /\ result = "returned"
    /\ host = [open |-> [p \in ContextPaths |-> <<>>], started |-> {}]
    /\ config = DefaultConfig
    /\ call = [p \in ContextPaths |-> Idle]

\* the calls that may still draw a trace id
Drawing == {p \in ContextPaths : call[p].pc \in {"test", "assign"}}

\* path p enters _get_or_create_trace_id(run_id)
GetBegin(p, run_id) ==
    /\ call[p].pc \in {"idle", "done"}
    /\ nextId + Cardinality(Drawing) <= RaceIds
    /\ call' = [call EXCEPT ![p] = [pc |-> "test", run_id |-> run_id, id |-> NoId]]
    /\ UNCHANGED <<traces, llm_calls, events, stack, session_id,
                   run_id_to_trace_id, run_start_times, nextId, now, faults,
                   result, host, config>>

\* if run_id_str not in self._run_id_to_trace_id:
GetTest(p) ==
    /\ call[p].pc = "test"
    /\ call' = [call EXCEPT ![p].pc =
                   IF run_id_to_trace_id[call[p].run_id] = NoId
                   THEN "assign" ELSE "read"]
    /\ UNCHANGED <<traces, llm_calls, events, stack, session_id,
                   run_id_to_trace_id, run_start_times, nextId, now, faults,
                   result, host, config>>

\* self._run_id_to_trace_id[run_id_str] = generate_trace_id()
GetAssign(p) ==
    /\ call[p].pc = "assign"
    /\ run_id_to_trace_id' =
          [run_id_to_trace_id EXCEPT ![call[p].run_id] = GenerateTraceId(nextId)]
    /\ nextId' = nextId + 1
    /\ call' = [call EXCEPT ![p].pc = "read"]
    /\ UNCHANGED <<traces, llm_calls, events, stack, session_id,
                   run_start_times, now, faults, result, host, config>>

\* return self._run_id_to_trace_id[run_id_str]
GetRead(p) ==
    /\ call[p].pc = "read"
    /\ call' = [call EXCEPT ![p].pc = "done",
                            ![p].id = run_id_to_trace_id[call[p].run_id]]
    /\ UNCHANGED <<traces, llm_calls, events, stack, session_id,
                   run_id_to_trace_id, run_start_times, nextId, now, faults,
                   result, host, config>>

NextRace ==
    \E p \in ContextPaths :
        \/ \E r \in RunIds : GetBegin(p, r)
        \/ GetTest(p)
        \/ GetAssign(p)
        \/ GetRead(p)

SpecRace == InitRace /\ [][NextRace]_vars

\* ------------------------------------------ sessions and notifications
\* SpecSession: two paths deliver notifications and set or clear their
\* session id in between
NextSession ==
    \E p \in ContextPaths :
        \/ Notify(p, RunIds, 1)
        \/ \E s \in Sessions : SetSessionId(p, s)
        \/ Clear(p)

SpecSession == InitContext /\ [][NextSession]_vars

\* ------------------------------------------------- several handlers
\* ObservabilityCallback.__init__(session_id=s) called on path p: every
\* handler holds the one global TraceContext, and a session id that is given
\* is set on the calling path.  The handler constructed first is the one
\* whose notifications are followed (its maps are the model's), and `call`
\* keeps how it was constructed.
ConstructHandler(p, s) ==
    /\ session_id' = IF s # NoSession
                     THEN [session_id EXCEPT ![p] = s]
                     ELSE session_id
    /\ call' = IF call = NoCall
               THEN [op |-> "__init__", path |-> p, session_id |-> s]
               ELSE call
    /\ UNCHANGED <<traces, llm_calls, events, stack, run_id_to_trace_id,
                   run_start_times, nextId, now, faults, result, host,
                   config>>

\* SpecHandlers: handlers are constructed on two paths, with a session id
\* or with none, and the paths deliver notifications to the first of them
NextHandlers ==
    \E p \in ContextPaths :
        \/ \E s \in Sessions \cup {NoSession} : ConstructHandler(p, s)
        \/ call # NoCall /\ Notify(p, RunIds, 1)

SpecHandlers == InitContext /\ [][NextHandlers]_vars

\* -------------------------------------------------- the event store
\* SpecEvents: a client calls TraceRepository.create_trace and
\* EventRepository.create_event with timestamps of its choice, and reads the
\* events of a trace back
StoredEvents == MaxEvents + 2

\* the rowids of the events of a trace
EventsOf(evs, trace_id) ==
    {i \in 1..Len(evs) : evs[i].trace_id = trace_id}

\* EventRepository.get_events_for_trace: SELECT * FROM events WHERE
\* trace_id = ? ORDER BY timestamp ASC.  The rows (their rowids) in an order
\* of non-decreasing timestamp; SQL leaves the order of rows of equal
\* timestamp open, so every such order is a possible value
GetEventsForTrace(evs, trace_id) ==
    LET ids == EventsOf(evs, trace_id)
        n == Cardinality(ids)
    IN  {q \in [1..n -> ids] :
            /\ \A a \in 1..n, b \in 1..n : a # b => q[a] # q[b]
            /\ \A a \in 1..n, b \in 1..n :
                  a < b => evs[q[a]].timestamp <= evs[q[b]].timestamp}

\* TraceRepository.create_trace called by the client
StoreCreateTrace(trace_id) ==
    /\ CanInsertTrace(traces, trace_id, NoId)
    /\ traces' = CreateTrace(traces, trace_id, "chain", now, NoSession, NoId)
    /\ call' = [op |-> "create_trace", trace_id |-> trace_id, value |-> <<>>]
    /\ UNCHANGED <<llm_calls, events, stack, session_id, run_id_to_trace_id,
                   run_start_times, nextId, now, faults, result, host,
                   config>>

\* EventRepository.create_event called by the client
StoreCreateEvent(trace_id, event_type, timestamp) ==
    /\ Len(events) < StoredEvents
    /\ CanInsertEvent(traces, trace_id)
    /\ events' = CreateEvent(events, trace_id, event_type, timestamp, {})
    /\ call' = [op |-> "create_event", trace_id |-> trace_id, value |-> <<>>]
    /\ UNCHANGED <<traces, llm_calls, stack, session_id, run_id_to_trace_id,
                   run_start_times, nextId, now, faults, result, host,
                   config>>

\* EventRepository.get_events_for_trace called by the client
StoreGetEvents(trace_id) ==
    /\ \E q \in GetEventsForTrace(events, trace_id) :
          call' = [op |-> "get_events_for_trace", trace_id |-> trace_id,
                   value |-> q]
    /\ UNCHANGED <<traces, llm_calls, events, stack, session_id,
                   run_id_to_trace_id, run_start_times, nextId, now, faults,
                   result, host, config>>

NextEvents ==
    \E t \in TraceIds :
        \/ StoreCreateTrace(t)
        \/ \E ts \in Times : StoreCreateEvent(t, "chain_start", ts)
        \/ StoreGetEvents(t)

SpecEvents == Init /\ [][NextEvents]_vars

\* -------------------------------------------------- truncate_string
\* SpecTruncate: one call truncate_string(text, max_length); the text is a
\* sequence of characters
MaxText == 6
MaxLength == 6
Texts == UNION {[1..n -> {"a", "b"}] : n \in 0..MaxText}
Ellipsis == <<".", ".", ".">>

\* Python's text[:k]: the first k characters, and for a negative k all but
\* the last -k characters
SliceTo(text, k) ==
    LET n == IF k >= 0
             THEN (IF k < Len(text) THEN k ELSE Len(text))
             ELSE (IF Len(text) + k > 0 THEN Len(text) + k ELSE 0)
    IN  SubSeq(text, 1, n)

TruncateString(text, max_length) ==
    IF Len(text) <= max_length
    THEN text
    ELSE SliceTo(text, max_length - 3) \o Ellipsis

InitTruncate ==
    /\ traces = <<>>
    /\ llm_calls = <<>>
    /\ events = <<>>
    /\ stack = [p \in Paths |-> <<>>]
    /\ session_id = [p \in Paths |-> NoSession]
    /\ run_id_to_trace_id = [r \in RunIds |-> NoId]
    /\ run_start_times = [r \in RunIds |-> NoTime]
    /\ nextId = 1
    /\ now = 0
    /\ faults = 0
    /\ result = "called"
    /\ host = [open |-> [p \in Paths |-> <<>>], started |-> {}]
    /\ config = DefaultConfig
    /\ \E text \in Texts, max_length \in 0..MaxLength :
          call = [op |-> "truncate_string", text |-> text,
                  max_length |-> max_length, value |-> <<>>]

\* the call returns
TruncateReturn ==
    /\ result = "called"
    /\ result' = "returned"
    /\ call' = [call EXCEPT
                  !.value = TruncateString(call.text, call.max_length)]
    /\ UNCHANGED <<traces, llm_calls, events, stack, session_id,
                   run_id_to_trace_id, run_start_times, nextId, now, faults,
                   host, config>>


SpecTruncate == InitTruncate /\ [][TruncateReturn]_vars

\* -------------------------------------------------- logging flags
\* SpecLogging: the notifications of Spec under each value the environment
\* can give ENABLE_PROMPT_LOGGING and ENABLE_RESPONSE_LOGGING
Configs == [ENABLE_PROMPT_LOGGING : BOOLEAN, ENABLE_RESPONSE_LOGGING : BOOLEAN]

InitLogging ==
    /\ traces = <<>>
    /\ llm_calls = <<>>
    /\ events = <<>>
    /\ stack = [p \in Paths |-> <<>>]
    /\ session_id = [p \in Paths |-> IF p = 1 THEN "s1" ELSE NoSession]
    /\ run_id_to_trace_id = [r \in RunIds |-> NoId]
    /\ run_start_times = [r \in RunIds |-> NoTime]
    /\ nextId = 1
    /\ now = 0
    /\ faults = 0
    /\ result = "returned"
    /\ host = [open |-> [p \in Paths |-> <<>>], started |-> {}]
    /\ config \in Configs
    /\ call = NoCall

NextLogging == \E p \in Paths : Notify(p, RunIds, MaxIds)

SpecLogging == InitLogging /\ [][NextLogging]_vars

\* -------------------------------------------------- calculate_cost
\* SpecCost: one call calculate_cost(model, input_tokens, output_tokens).
\* Prices are in cents per 1M tokens (0.05 USD is 5) and a cost is in units
\* of 1e-8 USD, so that every amount is an integer and exact
MillionTokens == 1000000
MaxTokenSteps == 3

GROQ_PRICING ==
    ("llama3-8b-8192" :> [input |-> 5, output |-> 8]) @@
    ("llama3-70b-8192" :> [input |-> 59, output |-> 79]) @@
    ("llama-3.1-8b-instant" :> [input |-> 5, output |-> 8]) @@
    ("llama-3.1-70b-versatile" :> [input |-> 59, output |-> 79]) @@
    ("llama-3.2-1b-preview" :> [input |-> 4, output |-> 4]) @@
    ("llama-3.2-3b-preview" :> [input |-> 6, output |-> 6]) @@
    ("llama-3.2-11b-vision-preview" :> [input |-> 18, output |-> 18]) @@
    ("llama-3.2-90b-vision-preview" :> [input |-> 90, output |-> 90]) @@
    ("llama-3.3-70b-versatile" :> [input |-> 59, output |-> 79]) @@
    ("mixtral-8x7b-32768" :> [input |-> 24, output |-> 24]) @@
    ("gemma-7b-it" :> [input |-> 7, output |-> 7]) @@
    ("gemma2-9b-it" :> [input |-> 20, output |-> 20])

DEFAULT_PRICING == [input |-> 10, output |-> 10]

\* a price of `cents` per 1M tokens as an amount, in units of 1e-8 USD
Usd(cents) == cents * MillionTokens

\* the models a call may name: those of the table and two it does not hold
UnknownModels == {"unknown", "gpt-4o"}
Models == DOMAIN GROQ_PRICING \cup UnknownModels
TokenCounts ==
    {1} \cup {k * (MillionTokens \div 2) : k \in 0..MaxTokenSteps}

\* variant of CalculateCost: a model absent from the table costs nothing
CalculateCost_UnknownIsFree(model, input_tokens, output_tokens) ==
    IF model \in DOMAIN GROQ_PRICING
    THEN input_tokens * GROQ_PRICING[model].input
            + output_tokens * GROQ_PRICING[model].output
    ELSE 0

\* calculate_cost: (input_tokens / 1_000_000) * pricing["input"] +
\* (output_tokens / 1_000_000) * pricing["output"], in units of 1e-8 USD
CalculateCost(model, input_tokens, output_tokens) ==
    LET pricing == IF model \in DOMAIN GROQ_PRICING
                   THEN GROQ_PRICING[model]
                   ELSE DEFAULT_PRICING
        input_cost == input_tokens * pricing.input
        output_cost == output_tokens * pricing.output
    IN  input_cost + output_cost

InitCost ==
    /\ traces = <<>>
    /\ llm_calls = <<>>
    /\ events = <<>>
    /\ stack = [p \in Paths |-> <<>>]
    /\ session_id = [p \in Paths |-> NoSession]
    /\ run_id_to_trace_id = [r \in RunIds |-> NoId]
    /\ run_start_times = [r \in RunIds |-> NoTime]
    /\ nextId = 1
    /\ now = 0
    /\ faults = 0
    /\ result = "called"
    /\ host = [open |-> [p \in Paths |-> <<>>], started |-> {}]
    /\ config = DefaultConfig
    /\ \E model \in Models, input_tokens \in TokenCounts,
          output_tokens \in TokenCounts :
          call = [op |-> "calculate_cost", model |-> model,
                  input_tokens |-> input_tokens,
                  output_tokens |-> output_tokens, value |-> 0]

\* the call returns
CostReturn ==
    /\ result = "called"
    /\ result' = "returned"
    /\ call' = [call EXCEPT
                  !.value = CalculateCost(call.model, call.input_tokens,
                                          call.output_tokens)]
    /\ UNCHANGED <<traces, llm_calls, events, stack, session_id,
                   run_id_to_trace_id, run_start_times, nextId, now, faults,
                   host, config>>


SpecCost == InitCost /\ [][CostReturn]_vars

\* -------------------------------------------------- metrics: percentile
\* the state of a process in which a pure function is called: an empty store,
\* no handler call made, and the call not yet returned
InitIdle ==
    /\ traces = <<>>
    /\ llm_calls = <<>>
    /\ events = <<>>
    /\ stack = [p \in Paths |-> <<>>]
    /\ session_id = [p \in Paths |-> NoSession]
    /\ run_id_to_trace_id = [r \in RunIds |-> NoId]
    /\ run_start_times = [r \in RunIds |-> NoTime]
    /\ nextId = 1
    /\ now = 0
    /\ faults = 0
    /\ result = "called"
    /\ host = [open |-> [p \in Paths |-> <<>>], started |-> {}]
    /\ config = DefaultConfig

\* the call of a pure function returns `value`
Return(value) ==
    /\ result = "called"
    /\ result' = "returned"
    /\ call' = [call EXCEPT !.value = value]
    /\ UNCHANGED <<traces, llm_calls, events, stack, session_id,
                   run_id_to_trace_id, run_start_times, nextId, now, faults,
                   host, config>>

\* SpecPercentile: one call percentile(data, p) of get_percentiles; data is
\* the ORDER BY duration_ms ASC result, p a rank in hundredths (0.5 is 50)
\* and the value returned is in hundredths of a millisecond, so that the
\* interpolation is exact
MaxData == 4
MaxValue == 4
Hundredths(x) == 100 * x

\* the lists the query can return: ascending
SortedLists ==
    {d \in UNION {[1..n -> {10 * v : v \in 1..MaxValue}] : n \in 0..MaxData} :
        \A i \in 1..Len(d), j \in 1..Len(d) : i < j => d[i] <= d[j]}

\* percentile of get_percentiles; data[f] of the code is data[f + 1] here
Percentile(data, p) ==
    IF data = <<>>
    THEN 0
    ELSE LET k100 == (Len(data) - 1) * p
             f == k100 \div 100
             c == f + 1
         IN  IF c >= Len(data)
             THEN Hundredths(data[f + 1])
             ELSE LET d0 == data[f + 1]
                      d1 == data[c + 1]
                  IN  Hundredths(d0) + (d1 - d0) * (k100 - Hundredths(f))

InitPercentile ==
    /\ InitIdle
    /\ \E data \in SortedLists, p \in {0, 25, 50, 95, 99, 100} :
          call = [op |-> "percentile", data |-> data, p |-> p, value |-> 0]

PercentileReturn == Return(Percentile(call.data, call.p))


SpecPercentile == InitPercentile /\ [][PercentileReturn]_vars

\* SpecPercentiles: one call get_percentiles(); durations is the result of
\* the query, and the three ranks are computed from the same list
GetPercentiles_RanksSwapped(durations) ==
    [p50 |-> Percentile(durations, 95),
     p95 |-> Percentile(durations, 50),
     p99 |-> Percentile(durations, 99)]

GetPercentiles(durations) ==
    IF durations = <<>>
    THEN [p50 |-> 0, p95 |-> 0, p99 |-> 0]
    ELSE [p50 |-> Percentile(durations, 50),
          p95 |-> Percentile(durations, 95),
          p99 |-> Percentile(durations, 99)]

InitPercentiles ==
    /\ InitIdle
    /\ \E data \in SortedLists :
          call = [op |-> "get_percentiles", data |-> data,
                  value |-> GetPercentiles(<<>>)]

PercentilesReturn == Return(GetPercentiles(call.data))

SpecPercentiles == InitPercentiles /\ [][PercentilesReturn]_vars

\* -------------------------------------------------- metrics: anomalies
\* SpecAnomaly: one call detect_anomalies(hours, threshold_multiplier); the
\* hourly buckets get_error_rate_over_time returns are given by their error
\* rates in percent, the multiplier is in tenths (2.0 is 20), and the value
\* returned is the set of positions of the buckets flagged
MaxBuckets == 5
MinBuckets == 3
RateLists == UNION {[1..n -> {0, 1, 50, 100}] : n \in 0..MaxBuckets}

RECURSIVE SumSeq(_)
SumSeq(q) == IF q = <<>> THEN 0 ELSE q[1] + SumSeq(Tail(q))

\* n * (rate - mean_rate): the deviation of a bucket, kept an integer
Deviation(rates, i) == Len(rates) * rates[i] - SumSeq(rates)

\* n^3 * variance
SquaredDeviations(rates) ==
    SumSeq([i \in 1..Len(rates) |-> Deviation(rates, i) * Deviation(rates, i)])

\* result["error_rate"] > mean_rate + threshold_multiplier * std_dev, both
\* sides compared exactly: with d the deviation and v the sum of the squared
\* deviations, (rate - mean)^2 = d^2 / n^2 and
\* (multiplier * std_dev)^2 = m10^2 * v / (100 * n^3)
AboveThreshold(rates, i, m10) ==
    LET d == Deviation(rates, i)
        v == SquaredDeviations(rates)
        lhs == 100 * Len(rates) * d * d
        rhs == m10 * m10 * v
    IN  IF m10 >= 0
        THEN d > 0 /\ lhs > rhs
        ELSE IF d >= 0
             THEN d > 0 \/ v > 0
             ELSE lhs < rhs

\* variant of DetectAnomalies: any number of buckets is analysed
DetectAnomalies_NoMinimum(rates, m10) ==
    {i \in 1..Len(rates) : AboveThreshold(rates, i, m10)}

\* detect_anomalies on the buckets the query returned
DetectAnomalies(rates, m10) ==
    IF Len(rates) < MinBuckets
    THEN {}
    ELSE {i \in 1..Len(rates) : AboveThreshold(rates, i, m10)}

InitAnomaly ==
    /\ InitIdle
    /\ \E rates \in RateLists, m10 \in {-10, 0, 5, 20} :
          call = [op |-> "detect_anomalies", rates |-> rates,
                  threshold_multiplier |-> m10, value |-> {}]

AnomalyReturn ==
    Return(DetectAnomalies(call.rates, call.threshold_multiplier))


SpecAnomaly == InitAnomaly /\ [][AnomalyReturn]_vars

\* -------------------------------------------------- metrics: histogram
\* SpecHistogram: one call get_latency_distribution(num_buckets) over the
\* durations of the traces the filter selects (a list with repetitions, in
\* milliseconds).  Bucket bounds are kept multiplied by num_buckets, so that
\* they are integers and the comparisons of the count query are exact
MaxDurations == 3
MaxNumBuckets == 3
DurationLists == UNION {[1..n -> {0, 10, 25, 40}] : n \in 0..MaxDurations}

\* MIN(duration_ms) and MAX(duration_ms) of a non-empty list
MinOf(q) == CHOOSE x \in {q[i] : i \in 1..Len(q)} :
                \A j \in 1..Len(q) : x <= q[j]
MaxOf(q) == CHOOSE x \in {q[i] : i \in 1..Len(q)} :
                \A j \in 1..Len(q) : x >= q[j]

\* SELECT COUNT(*) FROM traces WHERE duration_ms >= ? AND duration_ms < ?
\* with the bounds lo / nb and hi / nb
CountIn(durations, nb, lo, hi) ==
    Cardinality({j \in 1..Len(durations) :
                    nb * durations[j] >= lo /\ nb * durations[j] < hi})

\* get_latency_distribution: no bucket when the query finds no minimum or a
\* minimum of 0 (`not results[0]["min_latency"]`), else num_buckets buckets
\* of width (max - min) / num_buckets
GetLatencyDistribution(durations, nb) ==
    IF durations = <<>> \/ MinOf(durations) = 0
    THEN <<>>
    ELSE LET min_lat == MinOf(durations)
             max_lat == MaxOf(durations)
             width == max_lat - min_lat
         IN  [k \in 1..nb |->
                LET bucket_min == nb * min_lat + (k - 1) * width
                    bucket_max == bucket_min + width
                IN  [bucket_min |-> bucket_min, bucket_max |-> bucket_max,
                     count |-> CountIn(durations, nb, bucket_min, bucket_max)]]

InitHistogram ==
    /\ InitIdle
    /\ \E durations \in DurationLists, nb \in 1..MaxNumBuckets :
          call = [op |-> "get_latency_distribution", durations |-> durations,
                  num_buckets |-> nb, value |-> <<>>]

HistogramReturn ==
    Return(GetLatencyDistribution(call.durations, call.num_buckets))


SpecHistogram == InitHistogram /\ [][HistogramReturn]_vars

\* -------------------------------------------------- metrics: ratios
\* SpecRatio: a client fills the store through the repositories and calls
\* ErrorDetector.get_error_rate and CostTracker.get_cost_per_request with no
\* time window.  A ratio is kept as numerator and denominator
NoFilter == ""     \* an optional filter argument left None
Ratio(num, den) == [num |-> num, den |-> den]
Zero == Ratio(0, 1)
TraceTypes == {"llm", "chain"}
CostModels == {"llama3-8b-8192", "unknown"}

\* the rows WHERE 1=1 [AND trace_type = ?] selects
TracesOfType(tr, trace_type) ==
    {t \in DOMAIN tr : trace_type = NoFilter \/ tr[t].trace_type = trace_type}

\* SUM(CASE WHEN status = 'error' THEN 1 ELSE 0 END)
ErrorCount(tr, rows) == Cardinality({t \in rows : tr[t].status = "error"})

\* variant of GetErrorRate: the division is made whatever total_requests is
GetErrorRate_Unguarded(tr, trace_type) ==
    Ratio(ErrorCount(tr, TracesOfType(tr, trace_type)) * 100,
          Cardinality(TracesOfType(tr, trace_type)))

\* get_error_rate: (error_count / total_requests) * 100, and 0.0 when
\* total_requests is 0
GetErrorRate(tr, trace_type) ==
    LET rows == TracesOfType(tr, trace_type)
        total_requests == Cardinality(rows)
    IN  IF total_requests > 0
        THEN Ratio(ErrorCount(tr, rows) * 100, total_requests)
        ELSE Zero

\* the llm_calls rows FROM llm_calls JOIN traces ... [AND model = ?] selects
CallsOfModel(tr, calls, model) ==
    {i \in 1..Len(calls) :
        /\ calls[i].trace_id \in DOMAIN tr
        /\ model = NoFilter \/ calls[i].model = model}

\* get_cost_per_request: COALESCE(SUM(cost_usd), 0) / COUNT(*), and 0.0 when
\* the count is 0
GetCostPerRequest(tr, calls, model) ==
    LET rows == CallsOfModel(tr, calls, model)
        total_requests == Cardinality(rows)
        total_cost == SumSeq([i \in 1..Len(calls) |->
                                IF i \in rows THEN calls[i].cost_usd ELSE 0])
    IN  IF total_requests > 0
        THEN Ratio(total_cost, total_requests)
        ELSE Zero

\* TraceRepository.create_trace called by the client
RatioCreateTrace(trace_id, trace_type) ==
    /\ CanInsertTrace(traces, trace_id, NoId)
    /\ traces' = CreateTrace(traces, trace_id, trace_type, now, NoSession, NoId)
    /\ call' = [op |-> "create_trace", filter |-> NoFilter, value |-> Zero]
    /\ UNCHANGED <<llm_calls, events, stack, session_id, run_id_to_trace_id,
                   run_start_times, nextId, now, faults, result, host,
                   config>>

\* TraceRepository.update_trace_completion called by the client
RatioCompleteTrace(trace_id, status) ==
    /\ trace_id \in DOMAIN traces
    /\ traces[trace_id].status = "pending"
    /\ traces' = UpdateTraceCompletion(traces, trace_id, now, now, status,
                    IF status = "error" THEN "boom" ELSE NoError)
    /\ call' = [op |-> "update_trace_completion", filter |-> NoFilter,
                value |-> Zero]
    /\ UNCHANGED <<llm_calls, events, stack, session_id, run_id_to_trace_id,
                   run_start_times, nextId, now, faults, result, host,
                   config>>

\* LLMCallRepository.create_llm_call called by the client for a call of 1M
\* input tokens, with the cost calculate_cost gives
RatioCreateLLMCall(trace_id, model) ==
    /\ CanInsertLLMCall(traces, llm_calls, trace_id)
    /\ llm_calls' = Append(llm_calls,
                       [trace_id |-> trace_id, prompt |-> "prompt",
                        response |-> "response", model |-> model,
                        cost_usd |-> CalculateCost(model, MillionTokens, 0)])
    /\ call' = [op |-> "create_llm_call", filter |-> NoFilter, value |-> Zero]
    /\ UNCHANGED <<traces, events, stack, session_id, run_id_to_trace_id,
                   run_start_times, nextId, now, faults, result, host,
                   config>>

\* ErrorDetector.get_error_rate(trace_type=...) called by the client
QueryErrorRate(trace_type) ==
    /\ call' = [op |-> "get_error_rate", filter |-> trace_type,
                value |-> GetErrorRate(traces, trace_type)]
    /\ UNCHANGED <<traces, llm_calls, events, stack, session_id,
                   run_id_to_trace_id, run_start_times, nextId, now, faults,
                   result, host, config>>

\* CostTracker.get_cost_per_request(model=...) called by the client
QueryCostPerRequest(model) ==
    /\ call' = [op |-> "get_cost_per_request", filter |-> model,
                value |-> GetCostPerRequest(traces, llm_calls, model)]
    /\ UNCHANGED <<traces, llm_calls, events, stack, session_id,
                   run_id_to_trace_id, run_start_times, nextId, now, faults,
                   result, host, config>>

InitRatio ==
    /\ InitIdle
    /\ call = [op |-> "none", filter |-> NoFilter, value |-> Zero]

NextRatio ==
    \/ \E t \in TraceIds, ty \in TraceTypes : RatioCreateTrace(t, ty)
    \/ \E t \in TraceIds, st \in {"success", "error"} :
          RatioCompleteTrace(t, st)
    \/ \E t \in TraceIds, mo \in CostModels : RatioCreateLLMCall(t, mo)
    \/ \E ty \in TraceTypes \cup {NoFilter} : QueryErrorRate(ty)
    \/ \E mo \in CostModels \cup {NoFilter} : QueryCostPerRequest(mo)

SpecRatio == InitRatio /\ [][NextRatio]_vars

\* -------------------------------------------------- metrics: trends
\* SpecTrend: a client fills the store through TraceRepository and calls
\* ErrorDetector.get_error_rate_over_time(start_time, end_time, bucket_type).
\* Start times are Unix seconds; a bucket key is the number of the hour or
\* day since the epoch, whose order is the order of the strftime strings
SecondsPerHour == 3600
HoursPerDay == 24

\* strftime('%Y-%m-%d-%H' or '%Y-%m-%d', datetime(start_time, 'unixepoch'))
TimeBucket(start_time, bucket_type) ==
    IF bucket_type = "hourly"
    THEN start_time \div SecondsPerHour
    ELSE start_time \div (SecondsPerHour * HoursPerDay)

\* `if start_time:` / `if end_time:`: the bound is applied when it is given
\* and not zero
Given(bound) == bound # NoTime /\ bound # 0

\* variant of InRange: the bounds are exclusive
InRange_Exclusive(start_time, lo, hi) ==
    /\ Given(lo) => start_time > lo
    /\ Given(hi) => start_time < hi

\* WHERE 1=1 [AND start_time >= ?] [AND start_time <= ?]
InRange(start_time, lo, hi) ==
    /\ Given(lo) => start_time >= lo
    /\ Given(hi) => start_time <= hi

\* a set of numbers in ascending order
RECURSIVE Ascending(_)
Ascending(S) ==
    IF S = {}
    THEN <<>>
    ELSE LET least == CHOOSE x \in S : \A y \in S : x <= y
         IN  <<least>> \o Ascending(S \ {least})

\* get_error_rate_over_time: GROUP BY time_bucket ORDER BY time_bucket ASC,
\* then error_rate = safe_divide(error_count, total_count) * 100 per bucket
GetErrorRateOverTime(tr, lo, hi, bucket_type) ==
    LET rows == {t \in DOMAIN tr : InRange(tr[t].start_time, lo, hi)}
        keys == Ascending({TimeBucket(tr[t].start_time, bucket_type) :
                              t \in rows})
    IN  [k \in 1..Len(keys) |->
            LET group == {t \in rows :
                    TimeBucket(tr[t].start_time, bucket_type) = keys[k]}
            IN  [time_bucket |-> keys[k],
                 total_count |-> Cardinality(group),
                 error_count |-> ErrorCount(tr, group),
                 error_rate |-> IF Cardinality(group) # 0
                                THEN Ratio(ErrorCount(tr, group) * 100,
                                           Cardinality(group))
                                ELSE Zero]]

\* TraceRepository.create_trace called by the client
TrendCreateTrace(trace_id, start_time) ==
    /\ CanInsertTrace(traces, trace_id, NoId)
    /\ traces' = CreateTrace(traces, trace_id, "chain", start_time, NoSession,
                             NoId)
    /\ call' = [op |-> "create_trace", start_time |-> NoTime,
                end_time |-> NoTime, bucket_type |-> "hourly", value |-> <<>>]
    /\ UNCHANGED <<llm_calls, events, stack, session_id, run_id_to_trace_id,
                   run_start_times, nextId, now, faults, result, host,
                   config>>

\* TraceRepository.update_trace_completion called by the client
TrendCompleteTrace(trace_id, status) ==
    /\ trace_id \in DOMAIN traces
    /\ traces[trace_id].status = "pending"
    /\ traces' = UpdateTraceCompletion(traces, trace_id,
                    traces[trace_id].start_time, traces[trace_id].start_time,
                    status, IF status = "error" THEN "boom" ELSE NoError)
    /\ call' = [op |-> "update_trace_completion", start_time |-> NoTime,
                end_time |-> NoTime, bucket_type |-> "hourly", value |-> <<>>]
    /\ UNCHANGED <<llm_calls, events, stack, session_id, run_id_to_trace_id,
                   run_start_times, nextId, now, faults, result, host,
                   config>>

\* ErrorDetector.get_error_rate_over_time called by the client
QueryErrorRateOverTime(lo, hi, bucket_type) ==
    /\ call' = [op |-> "get_error_rate_over_time", start_time |-> lo,
                end_time |-> hi, bucket_type |-> bucket_type,
                value |-> GetErrorRateOverTime(traces, lo, hi, bucket_type)]
    /\ UNCHANGED <<traces, llm_calls, events, stack, session_id,
                   run_id_to_trace_id, run_start_times, nextId, now, faults,
                   result, host, config>>

InitTrend ==
    /\ InitIdle
    /\ call = [op |-> "none", start_time |-> NoTime, end_time |-> NoTime,
               bucket_type |-> "hourly", value |-> <<>>]

NextTrend ==
    \/ \E t \in 1..(MaxIds + 1), st \in {3600, 5400, 7200, 90000} : TrendCreateTrace(t, st)
    \/ \E t \in 1..(MaxIds + 1), s \in {"success", "error"} :
          TrendCompleteTrace(t, s)
    \/ \E lo, hi \in {NoTime, 5400, 7200}, b \in {"hourly", "daily"} :
          QueryErrorRateOverTime(lo, hi, b)

SpecTrend == InitTrend /\ [][NextTrend]_vars

\* -------------------------------------------- parents across run ids
\* SpecParent: every sequence of run notifications (on-start, on-end and
\* on-error of llm, chain and tool runs) in which no store write raises on
\* its own, with one more trace id than Spec: enough for a run in flight, a
\* different trace on the stack, and a new trace

RunNotify(p, r, pr) ==
    \/ OnLlmStart(p, r, pr, 0)
    \/ OnChainStart(p, r, pr, 0)
    \/ OnToolStart(p, r, pr, 0)
    \/ pr = NoRun /\ OnLlmEnd(p, r, 0)
    \/ pr = NoRun /\ OnChainEnd(p, r, 0)
    \/ pr = NoRun /\ OnToolEnd(p, r, 0)
    \/ pr = NoRun /\ \E e \in Errors : OnLlmError(p, r, e, 0)
    \/ pr = NoRun /\ \E e \in Errors : OnChainError(p, r, e, 0)
    \/ pr = NoRun /\ \E e \in Errors : OnToolError(p, r, e, 0)

NextParent ==
    \E p \in Paths, r \in RunIds : \E pr \in (RunIds \ {r}) \cup {NoRun} :
        /\ nextId + Allocates({r, pr}) <= MaxIds + 2
        /\ RunNotify(p, r, pr)
        /\ UNCHANGED <<host, config, call>>

SpecParent == Init /\ [][NextParent]_vars

\* ------------------------------------------- the prompt of an llm call
\* SpecPrompt: the prompt on_llm_end passes to create_llm_call.  call.prompts
\* is the list on_llm_start was given for the run (it stores none of it) and
\* call.response_prompts the `prompts` attribute of the response, <<>> when
\* the response has none (LLMResult declares no such attribute) or an empty
\* one.  MAX_PROMPT_LENGTH is 10000 in the program and is scaled down here.
MAX_PROMPT_LENGTH == 4

LlmEndPrompt(response_prompts) ==
    LET prompt == IF response_prompts # <<>> THEN response_prompts[1] ELSE <<>>
    IN  StoredText(config.ENABLE_PROMPT_LOGGING,
                   TruncateString(prompt, MAX_PROMPT_LENGTH))

InitPrompt ==
    /\ InitIdle
    /\ \E prompt \in Texts, response_prompts \in {<<>>} \cup {<<t>> : t \in Texts} :
          call = [op |-> "on_llm_end", prompts |-> <<prompt>>,
                  response_prompts |-> response_prompts, value |-> <<>>]

PromptReturn == Return(LlmEndPrompt(call.response_prompts))

SpecPrompt == InitPrompt /\ [][PromptReturn]_vars

\* ============================================================== claims
\* the trace id in the top frame of a stack, NoId for an empty stack
TopOf(stk) == IF stk = <<>> THEN NoId ELSE stk[Len(stk)].trace_id

\* the rows a step adds to table traces
NewTraces == DOMAIN traces' \ DOMAIN traces

\* C1 (as stated): in a well-nested sequence, the parent_trace_id written by
\* an on-start is the trace id that was on top of the calling path's stack
\* when the on-start was processed, none when the stack was empty (checked
\* while no store write has failed).
C1_ParentIsStackTop ==
    [][\A t \in NewTraces :
          \A p \in Paths, kind \in {"llm", "chain", "tool"},
             r \in NestedRunIds, pr \in NestedRunIds \cup {NoRun} :
             faults' = 0 /\ HostStart(p, kind, r, pr, 0)
             => traces'[t].parent_trace_id = TopOf(stack[p])]_vars

\* C1 (amended): in a well-nested sequence, an on-start that names no
\* parent_run_id writes the trace id on top of the calling path's stack (none
\* when it is empty) as parent_trace_id; one that names a parent_run_id
\* writes the trace id mapped to that run.
C1_ParentIsStackTopUnlessParentRun ==
    [][\A t \in NewTraces :
          \A p \in Paths, kind \in {"llm", "chain", "tool"},
             r \in NestedRunIds, pr \in NestedRunIds \cup {NoRun} :
             HostStart(p, kind, r, pr, 0) =>
                traces'[t].parent_trace_id =
                   IF pr = NoRun THEN TopOf(stack[p])
                   ELSE run_id_to_trace_id'[pr]]_vars

\* C1 witness: a child trace sits on the stack right above the frame of the
\* trace it was given as parent, and another trace was given the trace of a
\* tool run, named by parent_run_id, as parent
C1_Witness ==
    /\ \E p \in Paths :
          /\ Len(stack[p]) >= 2
          /\ traces[stack[p][Len(stack[p])].trace_id].parent_trace_id
                = stack[p][Len(stack[p]) - 1].trace_id
    /\ \E t \in DOMAIN traces :
          /\ traces[t].parent_trace_id # NoId
          /\ traces[traces[t].parent_trace_id].trace_type = "tool"

\* C2: every entry point returns normally to its caller, whatever the store
\* did: an exception of its body is caught and logged, never propagated.
C2_NeverPropagates == result \in {"returned", "logged"}

\* C2 witness: a store write raised inside an entry point, and the call
\* came back with the exception logged
C2_Witness == faults > 0 /\ result = "logged"

\* the trace a well-nested on-start without parent_run_id belongs under: the
\* trace of the innermost open llm or chain run of the path
EnclosingTrace(open) ==
    LET pushing == SelectSeq(open, LAMBDA c : c.kind \in {"llm", "chain"})
    IN  IF pushing = <<>> THEN NoId
        ELSE run_id_to_trace_id[pushing[Len(pushing)].run_id]

\* C3 (as stated): after a store write failed for one operation, a later
\* operation that is neither above nor below it in the call tree, and whose
\* own writes succeed, is recorded in full: at its start a pending trace with
\* the right parent and session, at its end the completion (and, for llm,
\* the llm_calls row).
C3_LaterOperationRecorded ==
    [][\A p \in Paths :
          LET open == host.open[p]
              recorded(c) == run_id_to_trace_id[c.run_id] \in DOMAIN traces
          IN  (\A i \in 1..Len(open) : recorded(open[i])) =>
                /\ \A kind \in {"llm", "chain", "tool"}, r \in NestedRunIds,
                      pr \in NestedRunIds \cup {NoRun} :
                      HostStart(p, kind, r, pr, 0) =>
                         LET t == run_id_to_trace_id'[r]
                         IN  /\ t \in DOMAIN traces'
                             /\ traces'[t].status = "pending"
                             /\ traces'[t].session_id = session_id[p]
                             /\ traces'[t].parent_trace_id =
                                   IF pr = NoRun THEN EnclosingTrace(open)
                                   ELSE run_id_to_trace_id[pr]
                /\ open # <<>> /\ HostEnd(p, 0) =>
                      LET c == open[Len(open)]
                          t == run_id_to_trace_id[c.run_id]
                      IN  /\ traces'[t].status = "success"
                          /\ c.kind = "llm" =>
                                \E i \in 1..Len(llm_calls') :
                                   llm_calls'[i].trace_id = t]_vars

\* a call of an on-end or on-error entry point for run_id
EndCall(run_id) ==
    \E p \in Paths, f \in 0..2 :
        \/ OnLlmEnd(p, run_id, f)
        \/ OnChainEnd(p, run_id, f)
        \/ OnToolEnd(p, run_id, f)
        \/ \E e \in Errors :
              \/ OnLlmError(p, run_id, e, f)
              \/ OnChainError(p, run_id, e, f)
              \/ OnToolError(p, run_id, e, f)

\* the run has a start time and is mapped to a trace that is in the store
InFlight(run_id) ==
    /\ run_id_to_trace_id[run_id] \in DOMAIN traces
    /\ run_start_times[run_id] # NoTime

\* C4 (as stated): a trace is written with status pending, leaves pending
\* only for success or error, and once it is success or error no later
\* notification changes its row.
C4_TerminalIsImmutable ==
    [][/\ \A t \in NewTraces : traces'[t].status = "pending"
       /\ \A t \in DOMAIN traces :
             /\ traces'[t].status \in {traces[t].status, "success", "error"}
             /\ traces[t].status # "pending" => traces'[t] = traces[t]]_vars

\* C5 (as stated): whenever a trace has an end_time, its duration_ms is
\* (end_time - start_time) * 1000 for the start_time of its own row.
C5_DurationFromStoredStart ==
    \A t \in DOMAIN traces :
        traces[t].end_time # NoTime =>
            traces[t].duration_ms
               = (traces[t].end_time - traces[t].start_time) * 1000

\* C6 (as stated): once an on-end or on-error for a run in flight has been
\* processed, the run is in neither map, whether or not its store writes
\* succeeded (checked on the calls that wrote the completion of the trace).
C6_EndReleasesRun ==
    [][\A r \in RunIds :
          /\ InFlight(r)
          /\ EndCall(r)
          /\ traces'[run_id_to_trace_id[r]] # traces[run_id_to_trace_id[r]]
          => /\ run_id_to_trace_id'[r] = NoId
             /\ run_start_times'[r] = NoTime]_vars

\* C7: a run whose on-start recorded a trace keeps that trace pending and
\* stays in both maps through every notification that is not an on-end or
\* on-error of that run.
C7_PendingUntilOwnEnd ==
    [][\A r \in RunIds :
          /\ InFlight(r)
          /\ traces[run_id_to_trace_id[r]].status = "pending"
          /\ ~EndCall(r)
          => /\ run_id_to_trace_id'[r] = run_id_to_trace_id[r]
             /\ run_start_times'[r] # NoTime
             /\ traces'[run_id_to_trace_id[r]].status = "pending"]_vars

\* C7 witness: a run is still in flight with its trace pending after the
\* trace of another run was started and completed
C7_Witness ==
    \E r \in RunIds, t \in DOMAIN traces :
        /\ InFlight(r)
        /\ traces[run_id_to_trace_id[r]].status = "pending"
        /\ t > run_id_to_trace_id[r]
        /\ traces[t].status # "pending"

\* C8: every trace with a parent_trace_id references a trace of the store.
C8_ParentInStore ==
    \A t \in DOMAIN traces :
        traces[t].parent_trace_id # NoId =>
            traces[t].parent_trace_id \in DOMAIN traces

\* C8 witness: a trace in the store has another trace as its parent
C8_Witness ==
    \E t \in DOMAIN traces :
        traces[t].parent_trace_id \notin {NoId, t}

\* the llm_calls rows of a trace
CallsOf(calls, t) == {i \in 1..Len(calls) : calls[i].trace_id = t}

\* C9: llm_calls rows are written by on_llm_end alone, and no row is ever
\* attached to a trace whose status is pending.
C9_CallOnlyAtCompletion ==
    [][/\ llm_calls' # llm_calls =>
             \E p \in Paths, r \in RunIds, f \in 0..2 : OnLlmEnd(p, r, f)
       /\ \A t \in DOMAIN traces' :
             CallsOf(llm_calls', t) # {} => traces'[t].status # "pending"]_vars

\* C9 witness: a completed trace has its llm_calls row
C9_Witness ==
    \E t \in DOMAIN traces :
        CallsOf(llm_calls, t) # {} /\ traces[t].status = "success"

\* C10 (as stated): every llm_calls row references a trace of the store
\* whose trace_type is llm, and no trace has two rows.
C10_CallOneToOneWithLlmTrace ==
    /\ \A i \in 1..Len(llm_calls) :
          /\ llm_calls[i].trace_id \in DOMAIN traces
          /\ traces[llm_calls[i].trace_id].trace_type = "llm"
    /\ \A t \in DOMAIN traces : Cardinality(CallsOf(llm_calls, t)) <= 1

\* a call of a TraceContext method by path p
ContextOp(p) ==
    \/ \E t \in TraceIds, ty \in {"llm", "chain"} : ContextPush(p, t, ty)
    \/ ContextPop(p)
    \/ \E s \in Sessions : SetSessionId(p, s)
    \/ Clear(p)

\* C11: whatever two paths do to the shared TraceContext, in any order, a
\* call made by one path leaves the stack (so its depth and top) and the
\* session id of the other path as they were: what a path observes is
\* determined by its own calls alone.
C11_PathsAreIndependent ==
    [][\A p \in ContextPaths, q \in ContextPaths :
          p # q /\ ContextOp(p) =>
             /\ stack'[q] = stack[q]
             /\ session_id'[q] = session_id[q]]_vars

\* C11 witness: after calls of both paths, the two paths hold different
\* non-empty stacks and different session ids
C11_Witness ==
    /\ call # NoCall
    /\ stack[1] # <<>> /\ stack[2] # <<>> /\ stack[1] # stack[2]
    /\ session_id[1] # NoSession /\ session_id[2] # NoSession
    /\ session_id[1] # session_id[2]

\* C14: pop_trace on an empty stack returns None and leaves the stack empty;
\* on a non-empty stack it removes and returns exactly the top frame; so a
\* pop right after a push would return the pushed frame and restore the
\* stack the push found.
C14_PopReturnsTop ==
    [][\A p \in ContextPaths :
          /\ ContextPop(p) =>
                IF stack[p] = <<>>
                THEN call'.value = NoFrame /\ stack'[p] = <<>>
                ELSE /\ call'.value = stack[p][Len(stack[p])]
                     /\ stack'[p] = SubSeq(stack[p], 1, Len(stack[p]) - 1)
          /\ \A t \in TraceIds, ty \in {"llm", "chain"} :
                ContextPush(p, t, ty) =>
                   /\ PopTraceValue(stack'[p]).trace_id = t
                   /\ PopTraceValue(stack'[p]).trace_type = ty
                   /\ PopTrace(stack'[p]) = stack[p]]_vars

\* C14 witness: a pop returned a frame and left a frame below it on the stack
C14_Witness ==
    /\ call # NoCall
    /\ call.op = "pop_trace"
    /\ call.value # NoFrame
    /\ stack[call.path] # <<>>

\* C15: clear() on a path leaves that path with an empty stack and no
\* session id, and the stack and session id of every other path unchanged.
C15_ClearResetsOwnPath ==
    [][\A p \in ContextPaths :
          Clear(p) =>
             /\ Len(stack'[p]) = 0
             /\ session_id'[p] = NoSession
             /\ \A q \in ContextPaths \ {p} :
                   /\ stack'[q] = stack[q]
                   /\ session_id'[q] = session_id[q]]_vars

\* C15 witness: a path has just cleared its context while the other path
\* holds a frame and a session id
C15_Witness ==
    /\ call # NoCall
    /\ call.op = "clear"
    /\ \E q \in ContextPaths \ {call.path} :
          stack[q] # <<>> /\ session_id[q] # NoSession

\* C12 (as stated): when two paths resolve the same run_id, unseen before,
\* at the same time, both obtain the same trace id, and it is the one the
\* map holds for the run.
C12_SameTraceIdForBoth ==
    \A p \in ContextPaths, q \in ContextPaths :
        /\ call[p].pc = "done"
        /\ call[q].pc = "done"
        /\ call[p].run_id = call[q].run_id
        => /\ call[p].id = call[q].id
           /\ call[p].id = run_id_to_trace_id[call[p].run_id]

\* a call of an on-start entry point on path p
StartCall(p) ==
    \E r \in RunIds, pr \in RunIds \cup {NoRun}, f \in 0..2 :
        \/ OnLlmStart(p, r, pr, f)
        \/ OnChainStart(p, r, pr, f)
        \/ OnToolStart(p, r, pr, f)

\* C13: a trace created by an on-start on a path carries the session id
\* last set for that path by set_session_id, none if it was never set or was
\* cleared since; no notification, so no push and no pop, changes a session
\* id.
C13_TraceCarriesPathSession ==
    [][/\ \A t \in NewTraces : \A p \in ContextPaths :
             StartCall(p) => traces'[t].session_id = session_id[p]
       /\ \A p \in ContextPaths, s \in Sessions :
             SetSessionId(p, s) => session_id'[p] = s
       /\ \A p \in ContextPaths : Clear(p) => session_id'[p] = NoSession
       /\ (\E p \in ContextPaths : Notify(p, RunIds, 1)) =>
             session_id' = session_id]_vars

\* C13 witness: a trace carries the session id "s2" its path had at the
\* on-start, while the other path had set "s1"; the trace's path has cleared
\* its context since
C13_Witness ==
    /\ \E t \in DOMAIN traces : traces[t].session_id = "s2"
    /\ call # NoCall
    /\ call.op = "clear"
    /\ \E q \in ContextPaths \ {call.path} : session_id[q] = "s1"

\* C16 (as stated): on_agent_action and on_agent_finish create no trace and
\* leave the stack alone; each appends exactly one event, under the trace
\* resolved from parent_run_id (else the stack top), and nothing when no
\* trace is resolved (checked on the calls in which no store write fails for
\* a reason of its own).
C16_AgentEventUnderResolvedTrace ==
    [][\A p \in Paths, pr \in RunIds \cup {NoRun} :
          (OnAgentAction(p, pr, 0) \/ OnAgentFinish(p, pr, 0)) =>
             LET resolved == IF pr # NoRun THEN run_id_to_trace_id'[pr]
                             ELSE TopOf(stack[p])
             IN  /\ traces' = traces
                 /\ stack' = stack
                 /\ IF resolved = NoId
                    THEN events' = events
                    ELSE /\ Len(events') = Len(events) + 1
                         /\ SubSeq(events', 1, Len(events)) = events
                         /\ events'[Len(events')].trace_id = resolved]_vars

\* the rowids of the events of a trace in the order they were inserted
InsertionOrder(evs, trace_id) ==
    SelectSeq([i \in 1..Len(evs) |-> i], LAMBDA i : evs[i].trace_id = trace_id)

\* C17 (as stated): get_events_for_trace returns the events of the trace in
\* the order in which they were inserted, whatever their timestamps.
C17_EventsInInsertionOrder ==
    [][\A t \in TraceIds :
          StoreGetEvents(t) => call'.value = InsertionOrder(events, t)]_vars

\* does text end with the ellipsis marker
EndsWithEllipsis(text) ==
    /\ Len(text) >= Len(Ellipsis)
    /\ SubSeq(text, Len(text) - Len(Ellipsis) + 1, Len(text)) = Ellipsis

\* C18 (as stated): for every text and every non-negative maximum length,
\* truncate_string returns a string no longer than the maximum: the text
\* itself when it fits, and otherwise a string ending in "...".
C18_TruncateWithinMaximum ==
    result = "returned" =>
        /\ Len(call.value) <= call.max_length
        /\ Len(call.text) <= call.max_length => call.value = call.text
        /\ Len(call.text) > call.max_length => EndsWithEllipsis(call.value)

\* the events whose payload on_chain_start, on_tool_start and
\* on_agent_action build from the input text, and those on_chain_end,
\* on_tool_end and on_agent_finish build from the output text
PromptEvents == {"chain_start", "tool_start", "agent_action"}
ResponseEvents == {"chain_end", "tool_end", "agent_finish"}

\* no stored event of these types carries a payload
NoPayload(types) ==
    \A i \in 1..Len(events) :
        events[i].event_type \in types => events[i].data = NoData

\* C19 (as stated): when prompt (response) logging is disabled, the prompt
\* (response) of every LLMCall is the marker and the payload of every event
\* the handler wrote is empty.
C19_DisabledFlagEmptiesEveryEvent ==
    /\ ~config.ENABLE_PROMPT_LOGGING =>
          /\ \A i \in 1..Len(llm_calls) : llm_calls[i].prompt = LoggingDisabled
          /\ NoPayload(PromptEvents \cup ResponseEvents)
    /\ ~config.ENABLE_RESPONSE_LOGGING =>
          /\ \A i \in 1..Len(llm_calls) :
                llm_calls[i].response = LoggingDisabled
          /\ NoPayload(PromptEvents \cup ResponseEvents)

\* C19 (amended): each flag governs its own text.  With prompt logging
\* disabled every LLMCall prompt is the marker and every chain_start,
\* tool_start and agent_action event has no payload; with response logging
\* disabled every LLMCall response is the marker and every chain_end, tool_end
\* and agent_finish event has no payload; with both disabled no LLMCall text
\* and no event payload depends on the text of the run.
C19_FlagGovernsItsOwnText ==
    /\ \A i \in 1..Len(events) :
          events[i].event_type \in PromptEvents \cup ResponseEvents
    /\ ~config.ENABLE_PROMPT_LOGGING =>
          /\ \A i \in 1..Len(llm_calls) : llm_calls[i].prompt = LoggingDisabled
          /\ NoPayload(PromptEvents)
    /\ ~config.ENABLE_RESPONSE_LOGGING =>
          /\ \A i \in 1..Len(llm_calls) :
                llm_calls[i].response = LoggingDisabled
          /\ NoPayload(ResponseEvents)

\* prompt logging is disabled and response logging enabled; an LLMCall and
\* events of both kinds are in the store
C19_Witness ==
    /\ ~config.ENABLE_PROMPT_LOGGING
    /\ config.ENABLE_RESPONSE_LOGGING
    /\ \E i \in 1..Len(llm_calls) :
          /\ llm_calls[i].prompt = LoggingDisabled
          /\ llm_calls[i].response # LoggingDisabled
    /\ \E i \in 1..Len(events) :
          /\ events[i].event_type \in PromptEvents
          /\ events[i].data = NoData
    /\ \E i \in 1..Len(events) :
          /\ events[i].event_type \in ResponseEvents
          /\ events[i].data # NoData

\* C20: calculate_cost(model, in, out) is in/1M * input price + out/1M *
\* output price with the model's pair of the pricing table, and with the
\* default pair for a model the table does not hold; so 1M input tokens of a
\* known model cost its input price, and 1M input plus 1M output tokens of an
\* unknown model cost the sum of the default pair.
C20_CostFromPricingTable ==
    result = "returned" =>
        /\ call.model \in DOMAIN GROQ_PRICING =>
              /\ call.value =
                    call.input_tokens * GROQ_PRICING[call.model].input
                    + call.output_tokens * GROQ_PRICING[call.model].output
              /\ (call.input_tokens = MillionTokens /\ call.output_tokens = 0)
                    => call.value = Usd(GROQ_PRICING[call.model].input)
        /\ call.model \notin DOMAIN GROQ_PRICING =>
              /\ call.value = call.input_tokens * DEFAULT_PRICING.input
                              + call.output_tokens * DEFAULT_PRICING.output
              /\ (/\ call.input_tokens = MillionTokens
                  /\ call.output_tokens = MillionTokens)
                    => call.value = Usd(DEFAULT_PRICING.input)
                                    + Usd(DEFAULT_PRICING.output)

\* calculate_cost has returned for 1M input and 1M output tokens of a model
\* the table does not hold
C20_Witness ==
    /\ result = "returned"
    /\ call.op = "calculate_cost"
    /\ call.model \in UnknownModels
    /\ call.input_tokens = MillionTokens
    /\ call.output_tokens = MillionTokens
    /\ call.value = Usd(20)

\* C21 (as stated): percentile([10,20,30,40], 0.5) is 20, and the percentile
\* of an empty list is 0 for every rank.
C21_PercentileOfExample ==
    result = "returned" =>
        /\ (call.data = <<10, 20, 30, 40>> /\ call.p = 50)
              => call.value = Hundredths(20)
        /\ call.data = <<>> => call.value = 0

\* C22 (as stated): with hourly error rates [1,1,1,1,50] and multiplier 2.0,
\* detect_anomalies flags the final bucket.
C22_FinalBucketFlagged ==
    (/\ result = "returned"
     /\ call.rates = <<1, 1, 1, 1, 50>>
     /\ call.threshold_multiplier = 20)
        => 5 \in call.value

\* C23: detect_anomalies returns an empty list whenever the window yields
\* fewer than 3 hourly buckets, whatever their rates and the multiplier.
C23_FewBucketsNoAnomaly ==
    (result = "returned" /\ Len(call.rates) < 3) => call.value = {}

\* detect_anomalies has returned for two buckets of which one is above the
\* threshold the multiplier gives
C23_Witness ==
    /\ result = "returned"
    /\ call.op = "detect_anomalies"
    /\ call.rates = <<0, 100>>
    /\ call.threshold_multiplier = 5
    /\ AboveThreshold(call.rates, 2, call.threshold_multiplier)
    /\ call.value = {}

\* C24 (as stated): the histogram counts every duration of the filtered set
\* in exactly one of the num_buckets bins over [min, max], the last bin
\* including max: the bin counts sum to the number of durations, also when
\* all durations are equal or the minimum is 0.
C24_HistogramCountsEveryDuration ==
    (result = "returned" /\ call.durations # <<>>) =>
        /\ Len(call.value) = call.num_buckets
        /\ SumSeq([k \in 1..Len(call.value) |-> call.value[k].count])
              = Len(call.durations)

\* C25: a ratio metric returns 0 when its denominator is zero:
\* get_error_rate when no trace matches the filter, get_cost_per_request
\* when no LLMCall matches; otherwise the error rate is error_count /
\* total_count * 100 and lies in [0, 100].
C25_ZeroDenominatorYieldsZero ==
    /\ call.op = "get_error_rate" =>
          LET rows == {t \in DOMAIN traces :
                          call.filter \in {NoFilter, traces[t].trace_type}}
              errors == {t \in rows : traces[t].status = "error"}
          IN  IF rows = {}
              THEN call.value = Zero
              ELSE /\ call.value.den > 0
                   /\ call.value.num * Cardinality(rows)
                         = Cardinality(errors) * 100 * call.value.den
                   /\ call.value.num >= 0
                   /\ call.value.num <= 100 * call.value.den
    /\ call.op = "get_cost_per_request" =>
          LET rows == {i \in 1..Len(llm_calls) :
                          call.filter \in {NoFilter, llm_calls[i].model}}
          IN  IF rows = {}
              THEN call.value = Zero
              ELSE call.value.den = Cardinality(rows)

\* get_error_rate has returned 0 for a filter no trace matches while the
\* store holds a trace of another type that ended in error
C25_Witness ==
    /\ call.op = "get_error_rate"
    /\ call.filter = "llm"
    /\ \E t \in DOMAIN traces :
          traces[t].trace_type = "chain" /\ traces[t].status = "error"
    /\ \A t \in DOMAIN traces : traces[t].trace_type # "llm"
    /\ call.value = Zero

\* the traces whose start time lies in the range a trend query names
QueriedTraces ==
    {t \in DOMAIN traces :
        /\ call.start_time # NoTime => traces[t].start_time >= call.start_time
        /\ call.end_time # NoTime => traces[t].start_time <= call.end_time}

C27_ParentRunIdBeforeStack ==
    [][\A t \in NewTraces :
          \A p \in Paths, r \in RunIds, pr \in RunIds \cup {NoRun} :
             (\/ OnLlmStart(p, r, pr, 0)
              \/ OnChainStart(p, r, pr, 0)
              \/ OnToolStart(p, r, pr, 0))
             => IF pr = NoRun
                THEN traces'[t].parent_trace_id = TopOf(stack[p])
                ELSE InFlight(pr) =>
                        traces'[t].parent_trace_id = run_id_to_trace_id[pr]]_vars

\* a trace on top of a stack was given the trace of a run in flight as
\* parent while the frame under it, the top when it started, is another trace
C27_Witness ==
    \E p \in Paths, r \in RunIds :
        /\ Len(stack[p]) >= 2
        /\ InFlight(r)
        /\ TopOf(stack[p]) \in DOMAIN traces
        /\ traces[TopOf(stack[p])].parent_trace_id = run_id_to_trace_id[r]
        /\ stack[p][Len(stack[p]) - 1].trace_id # run_id_to_trace_id[r]
        /\ TopOf(stack[p]) # run_id_to_trace_id[r]

\* C28: a run keeps the trace id it was mapped to until its own on-end or
\* on-error, and that notification changes no trace but the one mapped
\* to the run; run ids in flight are mapped to distinct trace ids; a run id
\* mapped anew is given a trace id that was never allocated before.
C28_StableDistinctFreshTraceIds ==
    [][/\ \A r \in RunIds :
             /\ run_id_to_trace_id[r] # NoId =>
                   /\ run_id_to_trace_id'[r] \in {run_id_to_trace_id[r], NoId}
                   /\ run_id_to_trace_id'[r] = NoId => EndCall(r)
             /\ (/\ InFlight(r)
                 /\ \E t \in DOMAIN traces \ {run_id_to_trace_id[r]} :
                       traces'[t] # traces[t])
                   => ~EndCall(r)
             /\ (run_id_to_trace_id[r] = NoId /\ run_id_to_trace_id'[r] # NoId)
                   => /\ run_id_to_trace_id'[r] >= nextId
                      /\ run_id_to_trace_id'[r] < nextId'
                      /\ run_id_to_trace_id'[r] \notin DOMAIN traces
       /\ \A r1 \in RunIds, r2 \in RunIds :
             (r1 # r2 /\ run_id_to_trace_id'[r1] # NoId)
                => run_id_to_trace_id'[r1] # run_id_to_trace_id'[r2]]_vars

\* two runs are in flight under distinct trace ids, and an earlier trace was
\* completed and its run id released and mapped anew
C28_Witness ==
    \E r1 \in RunIds, r2 \in RunIds, t \in DOMAIN traces :
        /\ r1 # r2
        /\ InFlight(r1)
        /\ InFlight(r2)
        /\ run_id_to_trace_id[r1] # run_id_to_trace_id[r2]
        /\ traces[t].status = "success"
        /\ t < run_id_to_trace_id[r1]
        /\ t < run_id_to_trace_id[r2]

C30_ToolLeavesStackAlone ==
    [][/\ \A p \in Paths, r \in NestedRunIds, f \in 0..2 :
             (\/ \E pr \in NestedRunIds \cup {NoRun} : OnToolStart(p, r, pr, f)
              \/ OnToolEnd(p, r, f)
              \/ \E e \in Errors : OnToolError(p, r, e, f))
             => stack' = stack
       /\ \A t \in NewTraces : \A p \in Paths, r \in NestedRunIds :
             (\/ OnLlmStart(p, r, NoRun, 0)
              \/ OnChainStart(p, r, NoRun, 0)
              \/ OnToolStart(p, r, NoRun, 0))
             => \A rt \in NestedRunIds :
                   (/\ InFlight(rt)
                    /\ traces[run_id_to_trace_id[rt]].trace_type = "tool")
                   => /\ traces'[t].parent_trace_id = TopOf(stack[p])
                      /\ traces'[t].parent_trace_id # run_id_to_trace_id[rt]]_vars

\* a run was started right inside a tool run that is still open, and its
\* trace has the parent the tool's trace has: the trace enclosing the tool
C30_Witness ==
    \E p \in Paths : \E i \in 1..(Len(host.open[p]) - 1) :
        LET tool == run_id_to_trace_id[host.open[p][i].run_id]
            inner == run_id_to_trace_id[host.open[p][i + 1].run_id]
        IN  /\ host.open[p][i].kind = "tool"
            /\ tool \in DOMAIN traces
            /\ inner \in DOMAIN traces
            /\ traces[tool].trace_type = "tool"
            /\ traces[inner].parent_trace_id = traces[tool].parent_trace_id
            /\ traces[inner].parent_trace_id \notin {NoId, tool}

\* C31: for every non-empty ascending list of durations the percentiles
\* get_percentiles returns lie between the smallest and the largest duration
\* and do not decrease with the rank (p50 <= p95 <= p99); for a list of one
\* element all three are that element.
C31_PercentilesBoundedAndMonotone ==
    (result = "returned" /\ call.data # <<>>) =>
        LET d == call.data
            v == call.value
        IN  /\ Hundredths(d[1]) <= v.p50
            /\ v.p50 <= v.p95
            /\ v.p95 <= v.p99
            /\ v.p99 <= Hundredths(d[Len(d)])
            /\ Len(d) = 1 =>
                  v = [p50 |-> Hundredths(d[1]), p95 |-> Hundredths(d[1]),
                       p99 |-> Hundredths(d[1])]

\* a list whose three percentiles are different and strictly inside the range
C31_Witness ==
    /\ result = "returned"
    /\ call.op = "get_percentiles"
    /\ call.data = <<10, 20, 30, 40>>
    /\ call.value = [p50 |-> 2500, p95 |-> 3850, p99 |-> 3970]

\* C38 (as stated): detect_anomalies never flags a bucket whose error rate
\* is at or below the mean, returns an empty list when all bucket rates are
\* equal, and with the default multiplier 2.0 returns an empty list for every
\* input of 3, 4 or 5 buckets.
C38_OnlyAboveMeanFlagged ==
    result = "returned" =>
        /\ \A i \in call.value : Deviation(call.rates, i) > 0
        /\ (\A i, j \in 1..Len(call.rates) : call.rates[i] = call.rates[j])
              => call.value = {}
        /\ (call.threshold_multiplier = 20 /\ Len(call.rates) \in 3..5)
              => call.value = {}

\* C32 (as stated): every Trace of trace_type llm that has status success
\* has exactly one LLMCall row, also when the LLMCall write fails during
\* on_llm_end.
C32_SuccessfulLlmTraceHasItsCall ==
    \A t \in DOMAIN traces :
        (traces[t].trace_type = "llm" /\ traces[t].status = "success")
            => Cardinality(CallsOf(llm_calls, t)) = 1

\* C33 (as stated): the frame removed from the stack while processing the
\* on-end or on-error notification of an llm or chain run r is the frame
\* that r's on-start pushed (its trace_id is r's trace_id); no end or error
\* notification removes the frame of a different, still open operation,
\* also for an end whose start failed before pushing.  The run that ends is
\* the innermost open run of the host.
C33_EndRemovesOwnFrame ==
    [][\A p \in Paths :
          (/\ Len(host'.open[p]) < Len(host.open[p])
           /\ Len(stack'[p]) < Len(stack[p]))
            => LET r == host.open[p][Len(host.open[p])].run_id
               IN  TopOf(stack[p]) = run_id_to_trace_id[r]]_vars

\* C34 (as stated): the run_id->trace_id map and the run_id->start_time
\* map have the same keys in every reachable state (the runs in flight):
\* resolving a parent_run_id or processing an end for an unknown run leaves
\* no entry behind.
C34_MapsHoldRunsInFlight ==
    \A r \in DOMAIN run_id_to_trace_id :
        run_id_to_trace_id[r] # NoId <=> run_start_times[r] # NoTime

\* C35 (as stated): every on-start notification whose run_id is not in
\* flight results in a pending Trace in the store, also when its
\* parent_run_id names a run whose on-start was never processed or whose
\* terminal notification was already processed (no store write raising on
\* its own).
C35_StartIsRecorded ==
    [][\A p \in Paths, r \in RunIds :
          (/\ run_id_to_trace_id[r] = NoId
           /\ run_id_to_trace_id'[r] # NoId
           /\ \E pr \in (RunIds \ {r}) \cup {NoRun} :
                 \/ OnLlmStart(p, r, pr, 0)
                 \/ OnChainStart(p, r, pr, 0)
                 \/ OnToolStart(p, r, pr, 0))
            => /\ run_id_to_trace_id'[r] \in DOMAIN traces'
               /\ traces'[run_id_to_trace_id'[r]].status = "pending"]_vars

\* C36 (as stated): every Trace recorded through a handler constructed with
\* session_id s carries session_id s, whichever path delivers the
\* notification and whichever other handlers were constructed on the same
\* path before or after it.
C36_TraceCarriesHandlerSession ==
    call # NoCall =>
        \A t \in DOMAIN traces : traces[t].session_id = call.session_id

\* C37 (as stated): with prompt logging enabled, the prompt stored in the
\* LLMCall row of an llm operation is the (truncated) first prompt that was
\* passed to that operation's on_llm_start.
C37_StoredPromptIsStartPrompt ==
    (result = "returned" /\ config.ENABLE_PROMPT_LOGGING) =>
        call.value = TruncateString(call.prompts[1], MAX_PROMPT_LENGTH)

====
